---- MODULE Spec2Model ----
(***************************************************************************)
(* Model of the strike-based torrent cleaner of amc-manager:               *)
(*   src/cleaner.py   TorrentCleaner (queue resolver, classifier,          *)
(*                    removal executor, cycle orchestrator)                *)
(*   src/database.py  update_strike / get_strikes / clear_strikes          *)
(*   src/config.py    the dynamic settings the cleaner reads               *)
(* One cleaner cycle is a sequence of steps of the single cleaner thread;  *)
(* the configuration file may be edited between any two steps, because     *)
(* every cfg property reloads the file when it is read.                    *)
(***************************************************************************)
EXTENDS Integers, Sequences, FiniteSets, TLC

VARIABLES
    torrent_strikes,  \* table torrent_strikes: hash -> [strikes, reason]
    connected,        \* TorrentCleaner.connected
    cfg,              \* the settings of config.yml the removal path reads
    pc,               \* position of the cleaner thread inside run_cleaner_cycle
    seen,             \* lowercased hashes of the list already iterated over
    cur,              \* locals of the current loop iteration
    ops,              \* ledger calls made in the current loop iteration
    acts              \* removal-executor dispatches of the current loop iteration

vars == <<torrent_strikes, connected, cfg, pc, seen, cur, ops, acts>>

----------------------------------------------------------------------------
(* Bounds of the model *)

MaxTags == 2          \* tags carried by one transfer
MaxQueue == 1         \* records in one manager's queue response
MaxCount == 3         \* largest strike count the model lets a row reach
MaxStrikes == 2       \* the max_strikes setting, which cfg.MAX_STRIKES returns

----------------------------------------------------------------------------
(* Strings.  A hash is a sequence of characters, a tag string a sequence   *)
(* of tokens in which a tag name is one token and "," and " " are the      *)
(* separator characters.                                                   *)

None == "None"
NoHash == <<>>        \* no transfer in the locals
NoQueueId == 0        \* queue_id = None

LowerChar(c) ==
    CASE c = "A" -> "a"
      [] c = "B" -> "b"
      [] c = "C" -> "c"
      [] c = "D" -> "d"
      [] OTHER -> c

\* str.lower() left out
lower_keeps_case(s) == s

lower(s) == [i \in DOMAIN s |-> LowerChar(s[i])]

\* hashes reported by the download client and download ids reported by managers
TorrentHashes == {<<"a", "b">>, <<"C", "D">>}
DownloadIds == {<<"A", "B">>, <<"c", "d">>}
Hashes == {lower(r) : r \in TorrentHashes \cup DownloadIds}

RECURSIVE split(_)
\* str.split(','): the pieces between the commas, nothing stripped
split(s) ==
    IF \A i \in DOMAIN s : s[i] # ","
    THEN <<s>>
    ELSE LET k == CHOOSE i \in DOMAIN s : s[i] = "," /\ \A j \in 1..(i - 1) : s[j] # ","
         IN <<SubSeq(s, 1, k - 1)>> \o split(SubSeq(s, k + 1, Len(s)))

\* t_tags = tor.tags.split(',') if tor.tags else []
t_tags_of(tags) == IF tags = <<>> THEN <<>> ELSE split(tags)

\* any(tag in t_tags for tag in wanted)
any_tag_in(t_tags, wanted) ==
    \E i \in DOMAIN wanted : \E j \in DOMAIN t_tags : t_tags[j] = <<wanted[i]>>

PROTECTED_TAGS == <<"protected", "Keep">>
PRIVATE_TAGS == <<"private">>
OBSOLETE_TAG == "amc_obsolete"

----------------------------------------------------------------------------
(* The download client's transfers.  A transfer carries a set of tags; the *)
(* client reports them as one string, the tag names joined by a separator. *)

TagNames == {"protected", "Keep", "private", "x"}
TagSeparators == {<<",">>, <<",", " ">>}

TagLists ==
    {l \in UNION {[1..n -> TagNames] : n \in 0..MaxTags} :
        \A i, j \in DOMAIN l : i # j => l[i] # l[j]}

RECURSIVE join(_, _)
join(l, sep) ==
    IF l = <<>> THEN <<>>
    ELSE IF Len(l) = 1 THEN <<l[1]>>
    ELSE <<l[1]>> \o sep \o join(Tail(l), sep)

Carries(l, wanted) == \E i \in DOMAIN l : \E j \in DOMAIN wanted : l[i] = wanted[j]

\* lines 122-128 on one reported tag string: what the transfer carries and what
\* the cleaner makes of it
tag_view(tags, sep) ==
    LET t_tags == t_tags_of(join(tags, sep))
    IN [tagged_protected |-> Carries(tags, PROTECTED_TAGS),
        tagged_private |-> Carries(tags, PRIVATE_TAGS),
        protected |-> any_tag_in(t_tags, PROTECTED_TAGS),
        is_private |-> any_tag_in(t_tags, PRIVATE_TAGS)]

TagViews == {tag_view(tags, sep) : tags \in TagLists, sep \in TagSeparators}
ProtectedViews == {tv \in TagViews : tv.protected}
EvaluatedViews == {tv \in TagViews : ~tv.protected}

TorStates == {"stalledDL", "forcedDL"}
TorMinutes == {5, 20}
TorSpeeds == {0, 204800}

----------------------------------------------------------------------------
(* Health classifier *)

RuleCfgs ==
    [RM_META_MISSING : BOOLEAN, RM_STALLED : BOOLEAN, RM_SLOW : BOOLEAN,
     RM_FAILED : BOOLEAN, TIMEOUT_METADATA : {15}, TIMEOUT_STALLED : {15},
     MIN_SPEED_KB : {100}]

\* the classifier with the failed rule looking at the state error only
strike_reason_error_only(rc, t_state, t_time_active, dlspeed) ==
    IF rc.RM_META_MISSING /\ t_state = "metaDL" /\ t_time_active > rc.TIMEOUT_METADATA
    THEN "Stuck Downloading Metadata"
    ELSE IF rc.RM_STALLED /\ t_state = "stalledDL" /\ t_time_active > rc.TIMEOUT_STALLED
    THEN "Stalled (No Seeds)"
    ELSE IF rc.RM_SLOW /\ t_state = "downloading" /\ t_time_active > 5
            /\ dlspeed < rc.MIN_SPEED_KB * 1024
    THEN "Downloading too slowly"
    ELSE IF rc.RM_FAILED /\ t_state = "error"
    THEN "Critical Error State"
    ELSE None

\* the classifier with inclusive thresholds
strike_reason_inclusive(rc, t_state, t_time_active, dlspeed) ==
    IF rc.RM_META_MISSING /\ t_state = "metaDL" /\ t_time_active >= rc.TIMEOUT_METADATA
    THEN "Stuck Downloading Metadata"
    ELSE IF rc.RM_STALLED /\ t_state = "stalledDL" /\ t_time_active >= rc.TIMEOUT_STALLED
    THEN "Stalled (No Seeds)"
    ELSE IF rc.RM_SLOW /\ t_state = "downloading" /\ t_time_active >= 5
            /\ dlspeed <= rc.MIN_SPEED_KB * 1024
    THEN "Downloading too slowly"
    ELSE IF rc.RM_FAILED /\ t_state \in {"error", "missingFiles"}
    THEN "Critical Error State"
    ELSE None

\* lines 144-152
strike_reason(rc, t_state, t_time_active, dlspeed) ==
    IF rc.RM_META_MISSING /\ t_state = "metaDL" /\ t_time_active > rc.TIMEOUT_METADATA
    THEN "Stuck Downloading Metadata"
    ELSE IF rc.RM_STALLED /\ t_state = "stalledDL" /\ t_time_active > rc.TIMEOUT_STALLED
    THEN "Stalled (No Seeds)"
    ELSE IF rc.RM_SLOW /\ t_state = "downloading" /\ t_time_active > 5
            /\ dlspeed < rc.MIN_SPEED_KB * 1024
    THEN "Downloading too slowly"
    ELSE IF rc.RM_FAILED /\ t_state \in {"error", "missingFiles"}
    THEN "Critical Error State"
    ELSE None

\* the verdicts the classifier gives over all rule settings and observations
Verdicts ==
    {strike_reason(rc, t_state, t_time_active, dlspeed) :
        rc \in RuleCfgs, t_state \in TorStates, t_time_active \in TorMinutes,
        dlspeed \in TorSpeeds}

----------------------------------------------------------------------------
(* Strike ledger (database.py).  ok = FALSE is a storage failure, which    *)
(* every function swallows.                                                *)

\* update_strike with the count of an existing row written back unchanged
update_strike_no_increment(table, torrent_hash, reason, ok) ==
    IF ~ok THEN <<table, 0>>
    ELSE IF torrent_hash \in DOMAIN table
    THEN <<[table EXCEPT ![torrent_hash] = [strikes |-> @.strikes, reason |-> reason]],
           table[torrent_hash].strikes>>
    ELSE <<(torrent_hash :> [strikes |-> 1, reason |-> reason]) @@ table, 1>>

\* update_strike whose UPDATE leaves the reason column alone
update_strike_keeps_reason(table, torrent_hash, reason, ok) ==
    IF ~ok THEN <<table, 0>>
    ELSE IF torrent_hash \in DOMAIN table
    THEN LET new_strikes == table[torrent_hash].strikes + 1
         IN <<[table EXCEPT ![torrent_hash] = [strikes |-> new_strikes, reason |-> @.reason]],
              new_strikes>>
    ELSE <<(torrent_hash :> [strikes |-> 1, reason |-> reason]) @@ table, 1>>

\* update_strike that returns the count it was about to store when storage fails
update_strike_failure_counts(table, torrent_hash, reason, ok) ==
    LET new_strikes == IF torrent_hash \in DOMAIN table
                       THEN table[torrent_hash].strikes + 1 ELSE 1
    IN IF ~ok THEN <<table, new_strikes>>
       ELSE <<(torrent_hash :> [strikes |-> new_strikes, reason |-> reason]) @@ table,
              new_strikes>>

\* update_strike: <<table after the call, returned count>>
update_strike(table, torrent_hash, reason, ok) ==
    IF ~ok THEN <<table, 0>>
    ELSE IF torrent_hash \in DOMAIN table
    THEN LET new_strikes == table[torrent_hash].strikes + 1
         IN <<[table EXCEPT ![torrent_hash] = [strikes |-> new_strikes, reason |-> reason]],
              new_strikes>>
    ELSE <<(torrent_hash :> [strikes |-> 1, reason |-> reason]) @@ table, 1>>

get_strikes(table, torrent_hash, ok) ==
    IF ~ok THEN 0
    ELSE IF torrent_hash \in DOMAIN table THEN table[torrent_hash].strikes ELSE 0

\* clear_strikes whose DELETE matches no row
clear_strikes_no_delete(table, torrent_hash, ok) == table

\* clear_strikes that writes count 0 instead of deleting the row
clear_strikes_zeroes(table, torrent_hash, ok) ==
    IF ~ok THEN table
    ELSE [h \in DOMAIN table |->
             IF h = torrent_hash THEN [table[h] EXCEPT !.strikes = 0] ELSE table[h]]

\* clear_strikes whose DELETE has no WHERE clause
clear_strikes_all(table, torrent_hash, ok) == IF ~ok THEN table ELSE <<>>

clear_strikes(table, torrent_hash, ok) ==
    IF ~ok THEN table
    ELSE [h \in DOMAIN table \ {torrent_hash} |-> table[h]]

----------------------------------------------------------------------------
(* Queue resolver *)

AppSet == {"Sonarr", "Radarr", "Lidarr"}

\* the managers number their queue entries independently
QueueIdBase(app_name) ==
    CASE app_name = "Sonarr" -> 10 [] app_name = "Radarr" -> 20 [] OTHER -> 30

\* the 'records' of a queue response: downloadId (possibly empty) and id
QueueRecords(app_name) ==
    UNION {{[i \in 1..n |-> [downloadId |-> ids[i], id |-> QueueIdBase(app_name) + i]] :
               ids \in [1..n -> DownloadIds \cup {<<>>}]} : n \in 0..MaxQueue}

RECURSIVE build_mapping(_, _)
\* the loop of get_arr_queue over the first n records; a later record wins
build_mapping(records, n) ==
    IF n = 0 THEN <<>>
    ELSE LET mapping == build_mapping(records, n - 1)
             h == lower(records[n].downloadId)
         IN IF h # <<>>
            THEN (h :> [id |-> records[n].id]) @@ [k \in DOMAIN mapping \ {h} |-> mapping[k]]
            ELSE mapping

\* get_arr_queue that returns what it had parsed when the failure struck
get_arr_queue_keeps_parsed(records, ok) ==
    IF ok THEN build_mapping(records, Len(records))
    ELSE build_mapping(records, IF records = <<>> THEN 0 ELSE 1)

\* get_arr_queue; ok = FALSE is a transport or parse failure
get_arr_queue(records, ok) == IF ok THEN build_mapping(records, Len(records)) ELSE <<>>

\* lines 112-114: the map of one manager, over every response, outage and setting
fetched_maps(app_name) ==
    {IF enabled THEN get_arr_queue(records, ok) ELSE <<>> :
        enabled \in BOOLEAN, ok \in BOOLEAN, records \in QueueRecords(app_name)}

SonarrMaps == fetched_maps("Sonarr")
RadarrMaps == fetched_maps("Radarr")
LidarrMaps == fetched_maps("Lidarr")

\* lines 131-138 with Radarr's map looked at before Sonarr's
find_owner_radarr_first(t_hash, sonarr_map, radarr_map, lidarr_map) ==
    IF t_hash \in DOMAIN radarr_map THEN <<"Radarr", radarr_map[t_hash].id>>
    ELSE IF t_hash \in DOMAIN sonarr_map THEN <<"Sonarr", sonarr_map[t_hash].id>>
    ELSE IF t_hash \in DOMAIN lidarr_map THEN <<"Lidarr", lidarr_map[t_hash].id>>
    ELSE <<None, NoQueueId>>

\* lines 131-138: <<owner_app, queue_id>>
find_owner(t_hash, sonarr_map, radarr_map, lidarr_map) ==
    IF t_hash \in DOMAIN sonarr_map THEN <<"Sonarr", sonarr_map[t_hash].id>>
    ELSE IF t_hash \in DOMAIN radarr_map THEN <<"Radarr", radarr_map[t_hash].id>>
    ELSE IF t_hash \in DOMAIN lidarr_map THEN <<"Lidarr", lidarr_map[t_hash].id>>
    ELSE <<None, NoQueueId>>

\* the outcomes of lines 131-138 for one hash over every triple of fetched maps;
\* the loop reads the maps at the hash of its transfer only, and no hash twice
owners_of(t_hash) ==
    {find_owner(t_hash, sonarr_map, radarr_map, lidarr_map) :
        sonarr_map \in SonarrMaps, radarr_map \in RadarrMaps, lidarr_map \in LidarrMaps}

OwnerTable == UNION {{<<t_hash, own>> : own \in owners_of(t_hash)} : t_hash \in Hashes}

----------------------------------------------------------------------------
(* Removal executor.  Each function yields the mutating calls it issues.   *)

\* remove_via_arr without the blocklist flag
remove_via_arr_no_blocklist(dry_run, app_name, url, api_key, queue_id, reason) ==
    IF dry_run THEN <<>>
    ELSE <<[op |-> "DELETE queue", url |-> url, api_key |-> api_key,
            api_version |-> IF app_name = "Lidarr" THEN "v1" ELSE "v3",
            queue_id |-> queue_id, removeFromClient |-> TRUE, blocklist |-> FALSE]>>

remove_via_arr(dry_run, app_name, url, api_key, queue_id, reason) ==
    IF dry_run THEN <<>>
    ELSE <<[op |-> "DELETE queue", url |-> url, api_key |-> api_key,
            api_version |-> IF app_name = "Lidarr" THEN "v1" ELSE "v3",
            queue_id |-> queue_id, removeFromClient |-> TRUE, blocklist |-> TRUE]>>

\* remove_via_qbit whose private branch does not look at the dry-run flag
remove_via_qbit_tags_in_dry_run(dry_run, torrent_hash, is_private) ==
    IF is_private
    THEN <<[op |-> "torrents_add_tags", tags |-> OBSOLETE_TAG,
            torrent_hashes |-> torrent_hash]>>
    ELSE IF dry_run THEN <<>>
         ELSE <<[op |-> "torrents_delete", delete_files |-> TRUE,
                 torrent_hashes |-> torrent_hash]>>

\* remove_via_qbit that keeps the downloaded files
remove_via_qbit_keeps_files(dry_run, torrent_hash, is_private) ==
    IF is_private
    THEN IF dry_run THEN <<>>
         ELSE <<[op |-> "torrents_add_tags", tags |-> OBSOLETE_TAG,
                 torrent_hashes |-> torrent_hash]>>
    ELSE IF dry_run THEN <<>>
         ELSE <<[op |-> "torrents_delete", delete_files |-> FALSE,
                 torrent_hashes |-> torrent_hash]>>

remove_via_qbit(dry_run, torrent_hash, is_private) ==
    IF is_private
    THEN IF dry_run THEN <<>>
         ELSE <<[op |-> "torrents_add_tags", tags |-> OBSOLETE_TAG,
                 torrent_hashes |-> torrent_hash]>>
    ELSE IF dry_run THEN <<>>
         ELSE <<[op |-> "torrents_delete", delete_files |-> TRUE,
                 torrent_hashes |-> torrent_hash]>>

\* lines 160-165 with the else of line 164 missing: an owned transfer is also
\* handed to remove_via_qbit
dispatch_removal_no_else(c, rm_orphans, dry_run) ==
    (IF c.owner_app # None
     THEN LET url == IF c.owner_app = "Sonarr" THEN "SONARR_URL" ELSE "RADARR_URL"
              key == IF c.owner_app = "Sonarr" THEN "SONARR_API_KEY" ELSE "RADARR_API_KEY"
          IN <<[fn |-> "remove_via_arr", t_hash |-> c.t_hash, dry_run |-> dry_run,
                args |-> <<c.owner_app, url, key, c.queue_id, c.strike_reason>>,
                calls |-> remove_via_arr(dry_run, c.owner_app, url, key, c.queue_id,
                                         c.strike_reason)]>>
     ELSE <<>>)
    \o (IF rm_orphans
        THEN <<[fn |-> "remove_via_qbit", t_hash |-> c.t_hash, dry_run |-> dry_run,
                args |-> <<c.t_hash, c.is_private>>,
                calls |-> remove_via_qbit(dry_run, c.t_hash, c.is_private)]>>
        ELSE <<>>)

\* lines 160-165: the executor dispatches made for one transfer at the threshold
dispatch_removal(c, rm_orphans, dry_run) ==
    IF c.owner_app # None
    THEN LET url == IF c.owner_app = "Sonarr" THEN "SONARR_URL" ELSE "RADARR_URL"
             key == IF c.owner_app = "Sonarr" THEN "SONARR_API_KEY" ELSE "RADARR_API_KEY"
         IN <<[fn |-> "remove_via_arr", t_hash |-> c.t_hash, dry_run |-> dry_run,
               args |-> <<c.owner_app, url, key, c.queue_id, c.strike_reason>>,
               calls |-> remove_via_arr(dry_run, c.owner_app, url, key, c.queue_id,
                                        c.strike_reason)]>>
    ELSE IF rm_orphans
    THEN <<[fn |-> "remove_via_qbit", t_hash |-> c.t_hash, dry_run |-> dry_run,
            args |-> <<c.t_hash, c.is_private>>,
            calls |-> remove_via_qbit(dry_run, c.t_hash, c.is_private)]>>
    ELSE <<>>

----------------------------------------------------------------------------
(* Settings *)

Cfgs == [dry_run : BOOLEAN, rm_orphans : BOOLEAN]

----------------------------------------------------------------------------
(* The cleaner cycle *)

NoCur ==
    [t_hash |-> NoHash, tagged_protected |-> FALSE, tagged_private |-> FALSE,
     skipped |-> None, is_private |-> FALSE, owner_app |-> None, queue_id |-> NoQueueId,
     orphans_off |-> FALSE,
     strike_reason |-> None, before |-> 0, current_strikes |-> -1, storage_ok |-> TRUE]

Init ==
    /\ torrent_strikes = <<>>
    /\ connected = FALSE
    /\ cfg \in Cfgs
    /\ pc = "idle"
    /\ seen = {}
    /\ cur = NoCur
    /\ ops = <<>>
    /\ acts = <<>>

\* the configuration file is edited; the next cfg read sees the new values
ConfigEdit ==
    /\ cfg' \in Cfgs \ {cfg}
    /\ UNCHANGED <<torrent_strikes, connected, pc, seen, cur, ops, acts>>

\* lines 101-103: the connection attempt fails and the cycle returns
ConnectFail ==
    /\ pc = "idle"
    /\ ~connected
    /\ UNCHANGED vars

\* lines 106-110: connected, but the transfer list cannot be fetched
FetchFail ==
    /\ pc = "idle"
    /\ connected' = TRUE
    /\ UNCHANGED <<torrent_strikes, cfg, pc, seen, cur, ops, acts>>

\* lines 101-114: connect if needed, fetch the transfers and the three queue maps
StartCycle ==
    /\ pc = "idle"
    /\ connected' = TRUE
    /\ pc' = "loop"
    /\ seen' = {}
    /\ cur' = NoCur
    /\ ops' = <<>>
    /\ acts' = <<>>
    /\ UNCHANGED <<torrent_strikes, cfg>>

\* line 141 without the test: no orphan is passed over
skip_orphan_never(owner_app, rm_orphans) == FALSE

\* line 141: if not owner_app and not cfg.RM_ORPHANS
skip_orphan(owner_app, rm_orphans) == owner_app = None /\ ~rm_orphans

\* lines 117-138: the locals of the iteration over one transfer
locals(t_hash, tv, own, table) ==
    [NoCur EXCEPT !.t_hash = t_hash,
                  !.tagged_protected = tv.tagged_protected,
                  !.tagged_private = tv.tagged_private,
                  !.is_private = tv.is_private,
                  !.owner_app = own[1], !.queue_id = own[2],
                  !.before = get_strikes(table, t_hash, TRUE)]

\* the transfers of the fetched list the loop has not reached yet
Unseen == {hash \in TorrentHashes : lower(hash) \notin seen}

\* line 125: a transfer with a protected tag is passed over
SkipProtected ==
    /\ pc = "loop"
    /\ \E hash \in Unseen, tv \in ProtectedViews :
          /\ seen' = seen \cup {lower(hash)}
          /\ cur' = [locals(lower(hash), tv, <<None, NoQueueId>>, torrent_strikes)
                        EXCEPT !.skipped = "protected", !.is_private = FALSE]
    /\ ops' = <<>>
    /\ acts' = <<>>
    /\ UNCHANGED <<torrent_strikes, connected, cfg, pc>>

\* line 141: an orphan is passed over while remove-orphans reads as disabled
SkipOrphan ==
    /\ pc = "loop"
    /\ \E hash \in Unseen, tv \in EvaluatedViews, ho \in OwnerTable :
          /\ ho[1] = lower(hash)
          /\ skip_orphan(ho[2][1], cfg.rm_orphans)
          /\ seen' = seen \cup {lower(hash)}
          /\ cur' = [locals(lower(hash), tv, ho[2], torrent_strikes)
                        EXCEPT !.skipped = "orphan", !.orphans_off = TRUE]
    /\ ops' = <<>>
    /\ acts' = <<>>
    /\ UNCHANGED <<torrent_strikes, connected, cfg, pc>>

\* lines 143-156: the classifier gives a reason and update_strike is called
Strike ==
    /\ pc = "loop"
    /\ \E hash \in Unseen, ho \in OwnerTable :
          /\ ho[1] = lower(hash)
          /\ ~skip_orphan(ho[2][1], cfg.rm_orphans)
          /\ get_strikes(torrent_strikes, ho[1], TRUE) < MaxCount
          /\ \E tv \in EvaluatedViews, reason \in Verdicts \ {None}, ok \in BOOLEAN :
             LET c == [locals(ho[1], tv, ho[2], torrent_strikes)
                          EXCEPT !.orphans_off = ho[2][1] = None /\ ~cfg.rm_orphans]
                 r == update_strike(torrent_strikes, c.t_hash, reason, ok)
             IN /\ seen' = seen \cup {c.t_hash}
                /\ torrent_strikes' = r[1]
                /\ cur' = [c EXCEPT !.strike_reason = reason, !.current_strikes = r[2],
                                    !.storage_ok = ok]
    /\ ops' = <<"update_strike">>
    /\ acts' = <<>>
    /\ pc' = "struck"
    /\ UNCHANGED <<connected, cfg>>

\* lines 166-168: the classifier gives no reason; a row with strikes is deleted
Recover ==
    /\ pc = "loop"
    /\ None \in Verdicts
    /\ \E hash \in Unseen, ho \in OwnerTable :
          /\ ho[1] = lower(hash)
          /\ ~skip_orphan(ho[2][1], cfg.rm_orphans)
          /\ \E tv \in EvaluatedViews, ok1 \in BOOLEAN :
             LET c == [locals(ho[1], tv, ho[2], torrent_strikes)
                          EXCEPT !.orphans_off = ho[2][1] = None /\ ~cfg.rm_orphans]
             IN /\ seen' = seen \cup {c.t_hash}
                /\ IF get_strikes(torrent_strikes, c.t_hash, ok1) > 0
                   THEN \E ok2 \in BOOLEAN :
                        /\ torrent_strikes' = clear_strikes(torrent_strikes, c.t_hash, ok2)
                        /\ cur' = [c EXCEPT !.storage_ok = ok1 /\ ok2]
                        /\ ops' = <<"get_strikes", "clear_strikes">>
                   ELSE /\ cur' = [c EXCEPT !.storage_ok = ok1]
                        /\ ops' = <<"get_strikes">>
                        /\ UNCHANGED torrent_strikes
    /\ acts' = <<>>
    /\ UNCHANGED <<connected, cfg, pc>>

\* lines 157-159: compare with cfg.MAX_STRIKES, reset the row before the removal
Threshold ==
    /\ pc = "struck"
    /\ IF cur.current_strikes >= MaxStrikes
       THEN \E ok \in BOOLEAN :
               /\ torrent_strikes' = clear_strikes(torrent_strikes, cur.t_hash, ok)
               /\ cur' = [cur EXCEPT !.storage_ok = cur.storage_ok /\ ok]
               /\ ops' = Append(ops, "clear_strikes")
               /\ pc' = "remove"
       ELSE /\ pc' = "loop"
            /\ UNCHANGED <<torrent_strikes, cur, ops>>
    /\ UNCHANGED <<connected, cfg, seen, acts>>

\* lines 160-165: dispatch the removal executor
Remove ==
    /\ pc = "remove"
    /\ acts' = acts \o dispatch_removal(cur, cfg.rm_orphans, cfg.dry_run)
    /\ pc' = "loop"
    /\ UNCHANGED <<torrent_strikes, connected, cfg, seen, cur, ops>>

\* the for loop is exhausted and run_cleaner_cycle returns
EndCycle ==
    /\ pc = "loop"
    /\ pc' = "idle"
    /\ seen' = {}
    /\ cur' = NoCur
    /\ ops' = <<>>
    /\ acts' = <<>>
    /\ UNCHANGED <<torrent_strikes, connected, cfg>>

Next ==
    \/ ConfigEdit
    \/ ConnectFail
    \/ FetchFail
    \/ StartCycle
    \/ SkipProtected
    \/ SkipOrphan
    \/ Strike
    \/ Recover
    \/ Threshold
    \/ Remove
    \/ EndCycle

Spec == Init /\ [][Next]_vars

----------------------------------------------------------------------------
(* Vocabulary of the properties *)

\* the mutating collaborator calls issued for the transfer of this iteration
IssuedCalls == IF acts = <<>> THEN <<>> ELSE acts[1].calls

\* update_strike returned a count at or above the configured maximum
Reached == cur.current_strikes >= MaxStrikes

\* the iteration over the transfer in cur has run to its end
IterationDone == pc = "loop" /\ cur.t_hash # NoHash

StoredStrikes(t_hash) == get_strikes(torrent_strikes, t_hash, TRUE)

IsQueueDelete(call, queue_id) ==
    /\ call.op = "DELETE queue"
    /\ call.queue_id = queue_id
    /\ call.removeFromClient
    /\ call.blocklist

IsDirectDelete(call, t_hash) ==
    call = [op |-> "torrents_delete", delete_files |-> TRUE, torrent_hashes |-> t_hash]

IsObsoleteTag(call, t_hash) ==
    call = [op |-> "torrents_add_tags", tags |-> OBSOLETE_TAG, torrent_hashes |-> t_hash]

----------------------------------------------------------------------------
\* C1: a transfer that carries a protected tag gets no ledger call and no
\* removal dispatch in the cycle, and its ledger row is left as it was.
C1_ProtectedUntouched ==
    cur.tagged_protected =>
        /\ ops = <<>>
        /\ acts = <<>>
        /\ StoredStrikes(cur.t_hash) = cur.before

\* C2: no step taken while the dry-run flag is set issues a mutating call.
C2_DryRunIssuesNothing ==
    [][cfg.dry_run => (IssuedCalls' = IssuedCalls \/ IssuedCalls' = <<>>)]_vars

\* C2 witness: the executor was dispatched under dry-run, at the threshold, and
\* the flag is still set
C2_Witness ==
    /\ IterationDone /\ Reached
    /\ acts # <<>> /\ acts[1].dry_run /\ cfg.dry_run

\* C3: an owned transfer at the threshold gets one dispatch; in live mode it
\* issues exactly one queue-entry delete with removeFromClient and blocklist set,
\* for the owner's queue-entry id, and nothing on the download client.
C3_OwnedOneQueueDelete ==
    (IterationDone /\ Reached /\ cur.owner_app # None) =>
        /\ Len(acts) = 1
        /\ acts[1].fn = "remove_via_arr"
        /\ ~acts[1].dry_run =>
              /\ Len(IssuedCalls) = 1
              /\ IsQueueDelete(IssuedCalls[1], cur.queue_id)

C3_Witness ==
    /\ IterationDone /\ Reached /\ cur.owner_app # None
    /\ acts # <<>> /\ ~acts[1].dry_run /\ Len(IssuedCalls) = 1

\* C4: the queue-entry delete of an owned transfer is sent to the owner's own
\* URL with the owner's own API key.
C4_DeleteGoesToOwner ==
    (IterationDone /\ Reached /\ cur.owner_app # None /\ IssuedCalls # <<>>) =>
        /\ IssuedCalls[1].url =
              (CASE cur.owner_app = "Sonarr" -> "SONARR_URL"
                 [] cur.owner_app = "Radarr" -> "RADARR_URL"
                 [] cur.owner_app = "Lidarr" -> "LIDARR_URL")
        /\ IssuedCalls[1].api_key =
              (CASE cur.owner_app = "Sonarr" -> "SONARR_API_KEY"
                 [] cur.owner_app = "Radarr" -> "RADARR_API_KEY"
                 [] cur.owner_app = "Lidarr" -> "LIDARR_API_KEY")
        /\ IssuedCalls[1].queue_id \in
              {QueueIdBase(cur.owner_app) + i : i \in 1..MaxQueue}

\* C5: an orphan that carries a private-tracker tag and is dispatched in live
\* mode gets one tag-add with the obsolete tag and no delete.
C5_PrivateOrphanTagged ==
    (IterationDone /\ Reached /\ cur.owner_app = None /\ cur.tagged_private
        /\ acts # <<>> /\ ~acts[1].dry_run) =>
        /\ Len(IssuedCalls) = 1
        /\ IsObsoleteTag(IssuedCalls[1], cur.t_hash)

\* C6 as stated: a transfer passed over as an orphan with remove-orphans
\* disabled has no ledger record, no ledger call and no removal dispatch.
C6_OrphanHasNoRecord ==
    cur.orphans_off =>
        /\ ops = <<>>
        /\ acts = <<>>
        /\ cur.t_hash \notin DOMAIN torrent_strikes

\* C6 amended: such a transfer gets no ledger call and no removal dispatch, and
\* its ledger row is left as it was (absent if it was absent).
C6_OrphanUntouched ==
    cur.orphans_off =>
        /\ ops = <<>>
        /\ acts = <<>>
        /\ StoredStrikes(cur.t_hash) = cur.before

\* C6 witness: an orphan with a row from an earlier cycle was passed over
C6_Witness == cur.orphans_off /\ cur.skipped = "orphan" /\ cur.before > 0

\* C7 as stated: once the returned count is at or above the maximum, the row is
\* absent when the removal call starts and when it has returned.
C7_RowAbsentAtRemoval ==
    (pc = "remove" \/ (IterationDone /\ Reached)) =>
        cur.t_hash \notin DOMAIN torrent_strikes

\* C7 amended: clear_strikes is called before the removal is dispatched, and
\* unless a storage failure made the delete fail the row is absent when the
\* removal call starts and when it has returned.
C7_ClearedBeforeRemoval ==
    /\ pc = "remove" => acts = <<>>
    /\ (pc = "remove" \/ (IterationDone /\ Reached)) =>
          /\ ops = <<"update_strike", "clear_strikes">>
          /\ cur.storage_ok => cur.t_hash \notin DOMAIN torrent_strikes

\* C7 witness: a row that existed before the cycle is gone at the moment the
\* removal is about to be dispatched
C7_Witness ==
    /\ pc = "remove" /\ cur.storage_ok /\ cur.before > 0
    /\ cur.t_hash \notin DOMAIN torrent_strikes

\* C8 as stated: a transfer whose count reached the maximum gets exactly one
\* removal dispatch in the cycle.
C8_ExactlyOneDispatch == (IterationDone /\ Reached) => Len(acts) = 1

\* C8 amended: reaching the maximum always leads to the dispatch step, which
\* dispatches exactly one removal for an owned transfer and for an orphan while
\* remove-orphans still reads as enabled, none for an orphan once remove-orphans
\* reads as disabled, and never more than one; nothing is dispatched below the
\* maximum.
C8_OneDispatchUnlessOrphansOff ==
    /\ [](IterationDone => Len(acts) <= (IF Reached THEN 1 ELSE 0))
    /\ [][/\ (pc = "struck" /\ Reached /\ pc' # "struck") => pc' = "remove"
          /\ (pc = "remove" /\ pc' # "remove") =>
                /\ Reached
                /\ acts = <<>>
                /\ Len(acts') = (IF cur.owner_app # None \/ cfg.rm_orphans THEN 1 ELSE 0)
         ]_vars

\* C8 witness: one dispatch made for a transfer at the maximum
C8_Witness == IterationDone /\ Reached /\ Len(acts) = 1 /\ cur.owner_app = None

\* the transfer of the C9 scenario: an evaluated orphan, neither private nor
\* protected, classified unhealthy
Scenario9 ==
    /\ cur.t_hash # NoHash /\ cur.skipped = None
    /\ cur.owner_app = None
    /\ ~cur.tagged_private /\ ~cur.tagged_protected
    /\ cur.strike_reason # None

\* the cycles of the C9 scenario, given that storage worked (sok)
Scenario9Cycles(sok) ==
    /\ (Scenario9 /\ sok /\ pc = "struck") =>
          /\ cur.current_strikes = cur.before + 1
          /\ StoredStrikes(cur.t_hash) = cur.before + 1
          /\ acts = <<>>
    /\ (Scenario9 /\ sok /\ IterationDone /\ cur.before + 1 < MaxStrikes) =>
          /\ StoredStrikes(cur.t_hash) = cur.before + 1
          /\ acts = <<>>
    /\ (Scenario9 /\ sok /\ IterationDone /\ cur.before + 1 >= MaxStrikes
           /\ acts # <<>> /\ ~acts[1].dry_run) =>
          /\ cur.t_hash \notin DOMAIN torrent_strikes
          /\ Len(IssuedCalls) = 1
          /\ IsDirectDelete(IssuedCalls[1], cur.t_hash)

\* C9 as stated: in the scenario every cycle below the maximum records the
\* next strike and removes nothing, and the cycle that reaches the maximum
\* clears the row and issues exactly one direct delete with delete_files.
C9_StrikesThenDelete == Scenario9Cycles(TRUE)

\* C9 amended: the same, with working storage; and with remove-orphans enabled
\* and live mode the dispatch step of the last cycle issues that one delete.
C9_StrikesThenDeleteIfStored ==
    /\ [](Scenario9Cycles(cur.storage_ok))
    /\ [][(Scenario9 /\ pc = "remove" /\ pc' # "remove"
              /\ cfg.rm_orphans /\ ~cfg.dry_run) =>
            /\ Len(IssuedCalls') = 1
            /\ IsDirectDelete(IssuedCalls'[1], cur.t_hash)
            /\ UNCHANGED torrent_strikes
         ]_vars

\* C9 witness: the cycle that takes the count from max-strikes - 1 to the
\* maximum has cleared the row and issued the delete
C9_Witness ==
    /\ Scenario9 /\ IterationDone /\ cur.storage_ok
    /\ MaxStrikes >= 2 /\ cur.before = MaxStrikes - 1
    /\ cur.t_hash \notin DOMAIN torrent_strikes
    /\ Len(IssuedCalls) = 1 /\ IsDirectDelete(IssuedCalls[1], cur.t_hash)

\* C10: an evaluated transfer classified unhealthy gets exactly one update_strike
\* call in the iteration; with working storage the call returns, and stores, the
\* count before plus 1, below, at and above the maximum alike.
C10_OneStrikePerCycle ==
    /\ (cur.skipped = None /\ cur.strike_reason # None) =>
          /\ ops # <<>>
          /\ ops[1] = "update_strike"
          /\ \A i \in 2..Len(ops) : ops[i] # "update_strike"
    /\ (cur.skipped # None \/ cur.strike_reason = None) =>
          \A i \in 1..Len(ops) : ops[i] # "update_strike"
    /\ (pc = "struck" /\ cur.storage_ok) =>
          /\ cur.current_strikes = cur.before + 1
          /\ StoredStrikes(cur.t_hash) = cur.before + 1

\* C10 witness: a row already at the maximum was incremented past it
C10_Witness ==
    /\ pc = "struck" /\ cur.storage_ok
    /\ cur.before >= MaxStrikes /\ cur.current_strikes = cur.before + 1

----------------------------------------------------------------------------
\* the iteration over the transfer in cur found it evaluated and healthy
Healthy == cur.t_hash # NoHash /\ cur.skipped = None /\ cur.strike_reason = None

\* C11 as stated: an evaluated transfer classified healthy whose row holds a
\* nonzero count has its row deleted in that cycle and gets no removal dispatch.
C11_RecoveryDeletesRow ==
    (IterationDone /\ Healthy /\ cur.before > 0) =>
        /\ cur.t_hash \notin DOMAIN torrent_strikes
        /\ acts = <<>>

\* C11 amended: such a transfer gets one get_strikes call and no removal
\* dispatch; unless get_strikes or the delete fails on a storage error, which
\* both swallow, clear_strikes is called and the row is gone in that cycle. A
\* healthy transfer without a row gets the get_strikes call only.
C11_RecoveryDeletesRowIfStored ==
    (IterationDone /\ Healthy) =>
        /\ acts = <<>>
        /\ ~Reached
        /\ ops # <<>> /\ ops[1] = "get_strikes"
        /\ (cur.before > 0 /\ cur.storage_ok) =>
              /\ ops = <<"get_strikes", "clear_strikes">>
              /\ cur.t_hash \notin DOMAIN torrent_strikes
        /\ cur.before = 0 =>
              /\ ops = <<"get_strikes">>
              /\ cur.t_hash \notin DOMAIN torrent_strikes

\* C11 witness: a transfer struck fewer than max-strikes times is healthy again
\* and its row has been deleted
C11_Witness ==
    /\ IterationDone /\ Healthy /\ cur.storage_ok
    /\ cur.before > 0 /\ cur.before < MaxStrikes
    /\ cur.t_hash \notin DOMAIN torrent_strikes

----------------------------------------------------------------------------
(* The health classifier on its own (lines 143-152).  In SpecClassify the  *)
(* variable cur holds one observation of a transfer together with the rule *)
(* settings read for it, and, once classified, the strike reason; the      *)
(* other variables stay as Init leaves them.                               *)

MaxMinutes == 7       \* largest elapsed time, in minutes, of an observed transfer

AllTorStates ==
    {"metaDL", "stalledDL", "downloading", "error", "missingFiles", "forcedDL", "uploading"}
Timeouts == {3, MaxMinutes - 1}
MinSpeedsKB == {1, 100}
ElapsedMinutes == 0..MaxMinutes
DlSpeeds == {0} \cup {kb * 1024 + d : kb \in MinSpeedsKB, d \in {-1, 0, 1}}

AllRuleCfgs ==
    [RM_META_MISSING : BOOLEAN, RM_STALLED : BOOLEAN, RM_SLOW : BOOLEAN,
     RM_FAILED : BOOLEAN, TIMEOUT_METADATA : Timeouts, TIMEOUT_STALLED : Timeouts,
     MIN_SPEED_KB : MinSpeedsKB]

Observations ==
    [rc : AllRuleCfgs, t_state : AllTorStates, t_time_active : ElapsedMinutes,
     dlspeed : DlSpeeds]

ClassifyInit ==
    /\ torrent_strikes = <<>>
    /\ connected = TRUE
    /\ cfg = [dry_run |-> TRUE, rm_orphans |-> FALSE]
    /\ pc = "observed"
    /\ seen = {}
    /\ \E o \in Observations :
          cur = [rc |-> o.rc, t_state |-> o.t_state, t_time_active |-> o.t_time_active,
                 dlspeed |-> o.dlspeed, strike_reason |-> None]
    /\ ops = <<>>
    /\ acts = <<>>

\* lines 144-152 on the observation
Classify ==
    /\ pc = "observed"
    /\ cur' = [cur EXCEPT !.strike_reason =
                  strike_reason(cur.rc, cur.t_state, cur.t_time_active, cur.dlspeed)]
    /\ pc' = "classified"
    /\ UNCHANGED <<torrent_strikes, connected, cfg, seen, ops, acts>>

ClassifyNext == Classify

SpecClassify == ClassifyInit /\ [][ClassifyNext]_vars

----------------------------------------------------------------------------
(* One loop iteration (lines 117-168) as a function of everything it reads: *)
(* the ledger, the transfer, its owner, the classifier's verdict, the two  *)
(* reads of cfg.RM_ORPHANS (lines 141 and 165), the read of cfg.DRY_RUN in *)
(* the executor, and the outcome ok.update, ok.get, ok.clear of each       *)
(* storage call.  It yields the ledger afterwards and the dispatches made. *)

StorageOutcomes == [update : BOOLEAN, get : BOOLEAN, clear : BOOLEAN]

\* the iteration with the dispatch skipped under dry-run
iteration_dry_run_skips_dispatch(table, t_hash, tv, own, reason, rm_141, rm_165, dry_run, ok) ==
    IF tv.protected \/ skip_orphan(own[1], rm_141)
    THEN [table |-> table, acts |-> <<>>]
    ELSE IF reason # None
    THEN LET r == update_strike(table, t_hash, reason, ok.update)
             c == [locals(t_hash, tv, own, table) EXCEPT !.strike_reason = reason]
         IN IF r[2] >= MaxStrikes
            THEN [table |-> clear_strikes(r[1], t_hash, ok.clear),
                  acts |-> IF dry_run THEN <<>> ELSE dispatch_removal(c, rm_165, dry_run)]
            ELSE [table |-> r[1], acts |-> <<>>]
    ELSE IF get_strikes(table, t_hash, ok.get) > 0
    THEN [table |-> clear_strikes(table, t_hash, ok.clear), acts |-> <<>>]
    ELSE [table |-> table, acts |-> <<>>]

iteration(table, t_hash, tv, own, reason, rm_141, rm_165, dry_run, ok) ==
    IF tv.protected \/ skip_orphan(own[1], rm_141)
    THEN [table |-> table, acts |-> <<>>]
    ELSE IF reason # None
    THEN LET r == update_strike(table, t_hash, reason, ok.update)
             c == [locals(t_hash, tv, own, table) EXCEPT !.strike_reason = reason]
         IN IF r[2] >= MaxStrikes
            THEN [table |-> clear_strikes(r[1], t_hash, ok.clear),
                  acts |-> dispatch_removal(c, rm_165, dry_run)]
            ELSE [table |-> r[1], acts |-> <<>>]
    ELSE IF get_strikes(table, t_hash, ok.get) > 0
    THEN [table |-> clear_strikes(table, t_hash, ok.clear), acts |-> <<>>]
    ELSE [table |-> table, acts |-> <<>>]

(* SpecTwin runs the cleaner twice side by side, once live and once in     *)
(* dry-run, on the same transfers, queues, settings and storage outcomes.  *)
(* torrent_strikes and acts hold the two runs' ledgers and the dispatches  *)
(* of their last iteration as [live |-> ..., dry |-> ...].                 *)

TwinInit ==
    /\ torrent_strikes = [live |-> <<>>, dry |-> <<>>]
    /\ connected = TRUE
    /\ cfg = [dry_run |-> TRUE, rm_orphans |-> FALSE]
    /\ pc = "loop"
    /\ seen = {}
    /\ cur = NoCur
    /\ ops = <<>>
    /\ acts = [live |-> <<>>, dry |-> <<>>]

TwinIterate ==
    \E ho \in OwnerTable, tv \in TagViews, reason \in Verdicts,
       rm_141 \in BOOLEAN, rm_165 \in BOOLEAN, ok \in StorageOutcomes :
       /\ ho[1] \in {lower(hash) : hash \in TorrentHashes}
       /\ get_strikes(torrent_strikes.live, ho[1], TRUE) < MaxCount
       /\ get_strikes(torrent_strikes.dry, ho[1], TRUE) < MaxCount
       /\ LET live == iteration(torrent_strikes.live, ho[1], tv, ho[2], reason,
                                rm_141, rm_165, FALSE, ok)
              dry == iteration(torrent_strikes.dry, ho[1], tv, ho[2], reason,
                               rm_141, rm_165, TRUE, ok)
          IN /\ torrent_strikes' = [live |-> live.table, dry |-> dry.table]
             /\ acts' = [live |-> live.acts, dry |-> dry.acts]
       /\ UNCHANGED <<connected, cfg, pc, seen, cur, ops>>

TwinNext == TwinIterate

SpecTwin == TwinInit /\ [][TwinNext]_vars

\* a removal decision: which executor function, for which transfer, with which
\* arguments (manager, queue entry, reason, or hash and private flag)
Decisions(dispatches) ==
    [i \in DOMAIN dispatches |->
        [fn |-> dispatches[i].fn, t_hash |-> dispatches[i].t_hash,
         args |-> dispatches[i].args]]

\* C12: fed the same transfers, queues, settings and storage outcomes, the
\* dry-run run has the same ledger and makes the same removal decisions as the
\* live run after every iteration, and issues no call.
C12_DryRunSameBookkeeping ==
    /\ torrent_strikes.dry = torrent_strikes.live
    /\ Decisions(acts.dry) = Decisions(acts.live)
    /\ \A i \in DOMAIN acts.dry : acts.dry[i].calls = <<>>

\* C12 witness: both runs cleared the row and decided the same removal; the live
\* run issued its call
C12_Witness ==
    /\ acts.live # <<>> /\ acts.live[1].calls # <<>>
    /\ acts.dry # <<>> /\ acts.dry[1].calls = <<>>
    /\ torrent_strikes.live = <<>>

\* C13: the reason the classifier gives equals the first match of the reference
\* rule list (metadata, stalled, slow, failed, in this order), and is None when
\* no rule matches, for every state, elapsed time, rate, flags and thresholds.
C13_ReasonIsFirstMatch ==
    pc = "classified" =>
        LET rc == cur.rc
            rules ==
                <<[enabled |-> rc.RM_META_MISSING,
                   holds |-> cur.t_state = "metaDL"
                             /\ cur.t_time_active > rc.TIMEOUT_METADATA,
                   reason |-> "Stuck Downloading Metadata"],
                  [enabled |-> rc.RM_STALLED,
                   holds |-> cur.t_state = "stalledDL"
                             /\ cur.t_time_active > rc.TIMEOUT_STALLED,
                   reason |-> "Stalled (No Seeds)"],
                  [enabled |-> rc.RM_SLOW,
                   holds |-> cur.t_state = "downloading" /\ cur.t_time_active > 5
                             /\ cur.dlspeed < rc.MIN_SPEED_KB * 1024,
                   reason |-> "Downloading too slowly"],
                  [enabled |-> rc.RM_FAILED,
                   holds |-> cur.t_state = "error" \/ cur.t_state = "missingFiles",
                   reason |-> "Critical Error State"]>>
            hits == {i \in DOMAIN rules : rules[i].enabled /\ rules[i].holds}
        IN IF hits = {}
           THEN cur.strike_reason = None
           ELSE cur.strike_reason = rules[CHOOSE i \in hits : \A j \in hits : i <= j].reason

\* C13 witness: a slow download past the grace period was classified
C13_Witness ==
    /\ pc = "classified" /\ cur.t_state = "downloading"
    /\ cur.strike_reason = "Downloading too slowly"

\* C14 as stated: at or below the timeout a metaDL (stalledDL) transfer yields
\* no strike and above it yields the strike; a downloading transfer at or below
\* 5 minutes, or with rate equal to the minimum speed, yields no strike.
C14_StrictThresholds ==
    pc = "classified" =>
        /\ (cur.t_state = "metaDL" /\ cur.t_time_active <= cur.rc.TIMEOUT_METADATA) =>
              cur.strike_reason = None
        /\ (cur.t_state = "metaDL" /\ cur.t_time_active > cur.rc.TIMEOUT_METADATA) =>
              cur.strike_reason = "Stuck Downloading Metadata"
        /\ (cur.t_state = "stalledDL" /\ cur.t_time_active <= cur.rc.TIMEOUT_STALLED) =>
              cur.strike_reason = None
        /\ (cur.t_state = "stalledDL" /\ cur.t_time_active > cur.rc.TIMEOUT_STALLED) =>
              cur.strike_reason = "Stalled (No Seeds)"
        /\ (cur.t_state = "downloading"
               /\ (cur.t_time_active <= 5 \/ cur.dlspeed = cur.rc.MIN_SPEED_KB * 1024)) =>
              cur.strike_reason = None

\* C14 amended: the same, where above the timeout the strike is given when the
\* rule of that state is enabled (and none when it is disabled).
C14_StrictThresholdsWhenEnabled ==
    pc = "classified" =>
        /\ (cur.t_state = "metaDL" /\ cur.t_time_active <= cur.rc.TIMEOUT_METADATA) =>
              cur.strike_reason = None
        /\ (cur.t_state = "metaDL" /\ cur.t_time_active > cur.rc.TIMEOUT_METADATA) =>
              cur.strike_reason =
                  IF cur.rc.RM_META_MISSING THEN "Stuck Downloading Metadata" ELSE None
        /\ (cur.t_state = "stalledDL" /\ cur.t_time_active <= cur.rc.TIMEOUT_STALLED) =>
              cur.strike_reason = None
        /\ (cur.t_state = "stalledDL" /\ cur.t_time_active > cur.rc.TIMEOUT_STALLED) =>
              cur.strike_reason = IF cur.rc.RM_STALLED THEN "Stalled (No Seeds)" ELSE None
        /\ (cur.t_state = "downloading"
               /\ (cur.t_time_active <= 5 \/ cur.dlspeed = cur.rc.MIN_SPEED_KB * 1024)) =>
              cur.strike_reason = None

\* C14 witness: one minute past the metadata timeout the strike is given
C14_Witness ==
    /\ pc = "classified" /\ cur.t_state = "metaDL" /\ cur.rc.RM_META_MISSING
    /\ cur.t_time_active = cur.rc.TIMEOUT_METADATA + 1
    /\ cur.strike_reason = "Stuck Downloading Metadata"

----------------------------------------------------------------------------
(* The strike ledger on its own (database.py 83-124).  In SpecLedger the   *)
(* variable torrent_strikes is the table and cur records the last call:    *)
(* its arguments, whether storage worked, the table before it and what it  *)
(* returned.                                                               *)

Reasons ==
    {"Stuck Downloading Metadata", "Stalled (No Seeds)", "Downloading too slowly",
     "Critical Error State"}

NoCall ==
    [op |-> None, torrent_hash |-> NoHash, reason |-> None, ok |-> TRUE,
     before |-> <<>>, returned |-> None]

LedgerInit ==
    /\ torrent_strikes = <<>>
    /\ connected = TRUE
    /\ cfg = [dry_run |-> TRUE, rm_orphans |-> FALSE]
    /\ pc = "ledger"
    /\ seen = {}
    /\ cur = NoCall
    /\ ops = <<>>
    /\ acts = <<>>

LedgerUpdate ==
    \E torrent_hash \in Hashes, reason \in Reasons, ok \in BOOLEAN :
       /\ get_strikes(torrent_strikes, torrent_hash, TRUE) < MaxCount
       /\ LET r == update_strike(torrent_strikes, torrent_hash, reason, ok)
          IN /\ torrent_strikes' = r[1]
             /\ cur' = [op |-> "update_strike", torrent_hash |-> torrent_hash,
                        reason |-> reason, ok |-> ok, before |-> torrent_strikes,
                        returned |-> r[2]]
       /\ UNCHANGED <<connected, cfg, pc, seen, ops, acts>>

LedgerGet ==
    \E torrent_hash \in Hashes, ok \in BOOLEAN :
       /\ cur' = [op |-> "get_strikes", torrent_hash |-> torrent_hash, reason |-> None,
                  ok |-> ok, before |-> torrent_strikes,
                  returned |-> get_strikes(torrent_strikes, torrent_hash, ok)]
       /\ UNCHANGED <<torrent_strikes, connected, cfg, pc, seen, ops, acts>>

LedgerClear ==
    \E torrent_hash \in Hashes, ok \in BOOLEAN :
       /\ torrent_strikes' = clear_strikes(torrent_strikes, torrent_hash, ok)
       /\ cur' = [op |-> "clear_strikes", torrent_hash |-> torrent_hash, reason |-> None,
                  ok |-> ok, before |-> torrent_strikes, returned |-> None]
       /\ UNCHANGED <<connected, cfg, pc, seen, ops, acts>>

LedgerNext == LedgerUpdate \/ LedgerGet \/ LedgerClear

SpecLedger == LedgerInit /\ [][LedgerNext]_vars

\* the rows of every id but torrent_hash are the same in tables t1 and t2
OthersUnchanged(t1, t2, torrent_hash) ==
    /\ DOMAIN t1 \ {torrent_hash} = DOMAIN t2 \ {torrent_hash}
    /\ \A h \in DOMAIN t1 \ {torrent_hash} : t1[h] = t2[h]

\* what C15 says of the last update_strike call
UpdateAsStated ==
    /\ cur.torrent_hash \in DOMAIN torrent_strikes
    /\ torrent_strikes[cur.torrent_hash].reason = cur.reason
    /\ OthersUnchanged(cur.before, torrent_strikes, cur.torrent_hash)
    /\ IF cur.torrent_hash \in DOMAIN cur.before
       THEN /\ torrent_strikes[cur.torrent_hash].strikes
                  = cur.before[cur.torrent_hash].strikes + 1
            /\ cur.returned = cur.before[cur.torrent_hash].strikes + 1
       ELSE /\ torrent_strikes[cur.torrent_hash].strikes = 1
            /\ cur.returned = 1

\* C15 as stated: update_strike inserts count 1 and returns 1 for an id without
\* a row, sets n+1 and returns n+1 for an id with count n, stores the given
\* reason, and changes no other id's row.
C15_UpdateInsertsOrIncrements == cur.op = "update_strike" => UpdateAsStated

\* C15 amended: so it is with working storage.
C15_UpdateInsertsOrIncrementsIfStored ==
    (cur.op = "update_strike" /\ cur.ok) => UpdateAsStated

\* C15 witness: a row with count 1 and another reason was incremented
C15_Witness ==
    /\ cur.op = "update_strike" /\ cur.ok /\ cur.returned = 2
    /\ cur.before[cur.torrent_hash].reason # cur.reason
    /\ Cardinality(DOMAIN torrent_strikes) = 2

\* every stored row has a count of at least 1
CountsPositive == \A h \in DOMAIN torrent_strikes : torrent_strikes[h].strikes >= 1

\* the last call, a clear_strikes, changed no row that is still stored
ResetIsDeletion ==
    cur.op = "clear_strikes" =>
        /\ DOMAIN torrent_strikes \subseteq DOMAIN cur.before
        /\ \A h \in DOMAIN torrent_strikes : torrent_strikes[h] = cur.before[h]

\* C16 as stated: every stored row has count >= 1, get_strikes returns 0 exactly
\* for ids without a row, and a reset is always a row deletion.
C16_NoZeroRows ==
    /\ CountsPositive
    /\ cur.op = "get_strikes" =>
          (cur.returned = 0 <=> cur.torrent_hash \notin DOMAIN cur.before)
    /\ ResetIsDeletion

\* C16 amended: every stored row has count >= 1 and a reset is always a row
\* deletion; with working storage get_strikes returns the stored count, so 0
\* exactly for ids without a row.
C16_NoZeroRowsGetIfStored ==
    /\ CountsPositive
    /\ (cur.op = "get_strikes" /\ cur.ok) =>
          /\ cur.returned = 0 <=> cur.torrent_hash \notin DOMAIN cur.before
          /\ cur.torrent_hash \in DOMAIN cur.before =>
                cur.returned = cur.before[cur.torrent_hash].strikes
    /\ ResetIsDeletion

\* C16 witness: a reset removed a row and left another row in the table
C16_Witness ==
    /\ cur.op = "clear_strikes" /\ cur.ok
    /\ cur.torrent_hash \in DOMAIN cur.before
    /\ cur.torrent_hash \notin DOMAIN torrent_strikes
    /\ torrent_strikes # <<>>

\* what C17 says of the last clear_strikes call
ClearAsStated ==
    /\ cur.torrent_hash \notin DOMAIN torrent_strikes
    /\ get_strikes(torrent_strikes, cur.torrent_hash, TRUE) = 0
    /\ OthersUnchanged(cur.before, torrent_strikes, cur.torrent_hash)
    /\ cur.torrent_hash \notin DOMAIN cur.before => torrent_strikes = cur.before
    /\ \A ok \in BOOLEAN :
          clear_strikes(torrent_strikes, cur.torrent_hash, ok) = torrent_strikes

\* C17 as stated: clear_strikes deletes the row of the id if present and is a
\* no-op otherwise; a second application changes nothing, get_strikes of the id
\* is 0 afterwards, and the rows of other ids are unchanged.
C17_ClearDeletesRow == cur.op = "clear_strikes" => ClearAsStated

\* C17 amended: so it is with working storage.
C17_ClearDeletesRowIfStored ==
    (cur.op = "clear_strikes" /\ cur.ok) => ClearAsStated

\* C17 witness: the row of one of two stored ids was deleted
C17_Witness ==
    /\ cur.op = "clear_strikes" /\ cur.ok
    /\ Cardinality(DOMAIN cur.before) = 2
    /\ Cardinality(DOMAIN torrent_strikes) = 1

----------------------------------------------------------------------------
(* Counting strikes over cycles with working storage.  In SpecCount the    *)
(* variable cur maps every hash to the number of cycles in which the       *)
(* transfer was classified unhealthy since its row was last absent; acts   *)
(* holds the dispatches of the last iteration.                             *)

StorageWorks == [update |-> TRUE, get |-> TRUE, clear |-> TRUE]

CountInit ==
    /\ torrent_strikes = <<>>
    /\ connected = TRUE
    /\ cfg \in Cfgs
    /\ pc = "idle"
    /\ seen = {}
    /\ cur = [h \in Hashes |-> 0]
    /\ ops = <<>>
    /\ acts = <<>>

\* lines 101-114
CountStartCycle ==
    /\ pc = "idle"
    /\ pc' = "loop"
    /\ seen' = {}
    /\ acts' = <<>>
    /\ UNCHANGED <<torrent_strikes, connected, cfg, cur, ops>>

\* lines 117-168 for the next transfer of the list
CountIterate ==
    /\ pc = "loop"
    /\ \E hash \in Unseen, ho \in OwnerTable, tv \in TagViews, reason \in Verdicts,
          rm_165 \in BOOLEAN :
          /\ ho[1] = lower(hash)
          /\ LET r == iteration(torrent_strikes, ho[1], tv, ho[2], reason,
                                cfg.rm_orphans, rm_165, cfg.dry_run, StorageWorks)
                 classified == ~tv.protected /\ ~skip_orphan(ho[2][1], cfg.rm_orphans)
                 unhealthy == IF classified /\ reason # None THEN 1 ELSE 0
             IN /\ torrent_strikes' = r.table
                /\ acts' = r.acts
                /\ cur' = [cur EXCEPT ![ho[1]] =
                              IF ho[1] \in DOMAIN r.table THEN @ + unhealthy ELSE 0]
          /\ seen' = seen \cup {ho[1]}
    /\ UNCHANGED <<connected, cfg, pc, ops>>

\* the for loop is exhausted; the configuration may be edited before the next cycle
CountEndCycle ==
    /\ pc = "loop"
    /\ pc' = "idle"
    /\ cfg' \in Cfgs
    /\ seen' = {}
    /\ UNCHANGED <<torrent_strikes, connected, cur, ops, acts>>

CountNext == CountStartCycle \/ CountIterate \/ CountEndCycle

SpecCount == CountInit /\ [][CountNext]_vars

\* C18: with working storage, at every cycle boundary the count stored for an
\* id is the number of cycles in which the transfer was classified unhealthy
\* since its row was last absent.
C18_CountIsUnhealthyCycles ==
    pc = "idle" => \A h \in Hashes : StoredStrikes(h) = cur[h]

\* C18 witness: a cycle boundary at which one transfer has max-strikes - 1
\* unhealthy cycles on its row and the other has none
C18_Witness ==
    /\ pc = "idle"
    /\ \E h \in Hashes : cur[h] = MaxStrikes - 1 /\ StoredStrikes(h) = MaxStrikes - 1
    /\ \E h \in Hashes : cur[h] = 0
    /\ MaxStrikes >= 2

----------------------------------------------------------------------------
\* C19: a storage failure inside update_strike or get_strikes gives the caller
\* the value 0 and no exception: the failed update_strike changes no row and
\* leads to no threshold reset and no removal dispatch for the transfer, the
\* failed get_strikes leads to no delete, and the loop goes on with the
\* transfers that remain.
C19_StorageFailureReadsZero ==
    /\ []((pc = "struck" /\ ~cur.storage_ok) =>
            /\ cur.current_strikes = 0
            /\ StoredStrikes(cur.t_hash) = cur.before
            /\ acts = <<>>)
    /\ []((IterationDone /\ cur.strike_reason # None /\ cur.current_strikes = 0) =>
            /\ ops = <<"update_strike">>
            /\ acts = <<>>)
    /\ []((IterationDone /\ Healthy /\ ~cur.storage_ok /\ Len(ops) = 1) =>
            /\ ops = <<"get_strikes">>
            /\ StoredStrikes(cur.t_hash) = cur.before
            /\ acts = <<>>)
    /\ [][(pc = "struck" /\ ~cur.storage_ok /\ pc' # pc) =>
            /\ pc' = "loop"
            /\ seen' = seen
            /\ acts' = <<>>
            /\ UNCHANGED torrent_strikes
         ]_vars

\* C19 witness: update_strike failed on a row one strike short of the maximum;
\* nothing was removed and a transfer of the list is still to be processed
C19_Witness ==
    /\ IterationDone /\ cur.strike_reason # None /\ ~cur.storage_ok
    /\ cur.current_strikes = 0 /\ cur.before = MaxStrikes - 1 /\ cur.before >= 1
    /\ acts = <<>>
    /\ Unseen # {}

----------------------------------------------------------------------------
(* The queue resolver on its own (lines 46-61, 112-114, 131-138).  In      *)
(* SpecQueue the variable cur holds, per manager, whether it is enabled,   *)
(* its queue response, whether the fetch worked and the map built, and the *)
(* transfer the loop is at: its hash as the download client reports it,    *)
(* t_hash of line 117, which is the key of the map lookups and of every    *)
(* ledger call of the iteration, and the owner found for it.               *)

\* lines 112-114: the map of one manager
fetch_map(enabled, records, ok) == IF enabled THEN get_arr_queue(records, ok) ELSE <<>>

\* no cycle is running: nothing fetched, no transfer at hand
NoQueues ==
    [enabled |-> [a \in AppSet |-> FALSE], ok |-> [a \in AppSet |-> TRUE],
     records |-> [a \in AppSet |-> <<>>], maps |-> [a \in AppSet |-> <<>>],
     hash |-> NoHash, t_hash |-> NoHash, owner |-> <<None, NoQueueId>>]

QueueInit ==
    /\ torrent_strikes = <<>>
    /\ connected = TRUE
    /\ cfg = [dry_run |-> TRUE, rm_orphans |-> FALSE]
    /\ pc = "idle"
    /\ seen = {}
    /\ cur = NoQueues
    /\ ops = <<>>
    /\ acts = <<>>

\* lines 112-114: the three queue fetches of a cycle
QueueFetch ==
    /\ pc = "idle"
    /\ \E enabled \in [AppSet -> BOOLEAN], ok \in [AppSet -> BOOLEAN],
          sonarr \in QueueRecords("Sonarr"), radarr \in QueueRecords("Radarr"),
          lidarr \in QueueRecords("Lidarr") :
          LET records == [a \in AppSet |->
                             CASE a = "Sonarr" -> sonarr [] a = "Radarr" -> radarr
                               [] OTHER -> lidarr]
          IN cur' = [enabled |-> enabled, ok |-> ok, records |-> records,
                     maps |-> [a \in AppSet |-> fetch_map(enabled[a], records[a], ok[a])],
                     hash |-> NoHash, t_hash |-> NoHash, owner |-> <<None, NoQueueId>>]
    /\ pc' = "loop"
    /\ seen' = {}
    /\ UNCHANGED <<torrent_strikes, connected, cfg, ops, acts>>

\* lines 117, 131-138 for the next transfer of the list
QueueResolve ==
    /\ pc = "loop"
    /\ \E hash \in Unseen :
          /\ cur' = [cur EXCEPT !.hash = hash, !.t_hash = lower(hash),
                                !.owner = find_owner(lower(hash), cur.maps["Sonarr"],
                                                     cur.maps["Radarr"], cur.maps["Lidarr"])]
          /\ seen' = seen \cup {lower(hash)}
    /\ UNCHANGED <<torrent_strikes, connected, cfg, pc, ops, acts>>

\* the for loop is exhausted and run_cleaner_cycle returns
QueueEndCycle ==
    /\ pc = "loop"
    /\ pc' = "idle"
    /\ seen' = {}
    /\ cur' = NoQueues
    /\ UNCHANGED <<torrent_strikes, connected, cfg, ops, acts>>

QueueNext == QueueFetch \/ QueueResolve \/ QueueEndCycle

SpecQueue == QueueInit /\ [][QueueNext]_vars

\* the enabled managers whose queue fetch failed in this cycle
FailedApps == {a \in AppSet : cur.enabled[a] /\ ~cur.ok[a]}

\* the maps of this cycle had manager app been disabled
MapsWithout(app) ==
    [a \in AppSet |-> fetch_map(cur.enabled[a] /\ a # app, cur.records[a], cur.ok[a])]

\* C20: when the queue fetch of an enabled manager fails, the cycle goes on
\* into its loop with that manager's map empty, the three maps are those of a
\* cycle in which that manager is disabled, and every transfer gets the owner
\* and queue entry it gets in such a cycle.
C20_FailedFetchIsDisabled ==
    \A app \in FailedApps :
        /\ pc = "loop"
        /\ cur.maps[app] = <<>>
        /\ cur.maps = MapsWithout(app)
        /\ cur.t_hash # NoHash =>
              cur.owner = find_owner(cur.t_hash, MapsWithout(app)["Sonarr"],
                                     MapsWithout(app)["Radarr"], MapsWithout(app)["Lidarr"])

\* C20 witness: Sonarr's fetch failed on a response that lists the transfer,
\* and the transfer was resolved to Radarr
C20_Witness ==
    /\ "Sonarr" \in FailedApps
    /\ cur.t_hash # NoHash
    /\ \E i \in DOMAIN cur.records["Sonarr"] :
          lower(cur.records["Sonarr"][i].downloadId) = cur.t_hash
    /\ cur.owner[1] = "Radarr"

----------------------------------------------------------------------------
(* run_cleaner_cycle step by step (lines 99-168): the connection attempt,  *)
(* the fetch of the transfer list, the three queue fetches in their order, *)
(* and the loop.  In SpecCycle the variable cur is the log of the cycle:   *)
(* its parity, whether connect_qbit was called and how it ended, how the   *)
(* fetch of the transfer list ended, how the last finished cycle ended,    *)
(* the ledger at the start of the cycle (kept until                        *)
(* the loop is entered), the state of every queue fetch, the maps built,   *)
(* and the transfer the loop is at with its owner.  acts holds every       *)
(* dispatch of the cycle.                                                  *)

\* connect_qbit that marks the client connected before logging in and leaves
\* the mark on failure
connect_qbit_always(ok) == TRUE

\* connect_qbit: the value of self.connected after the attempt
connect_qbit(ok) == ok

\* lines 101-103: the cycle returns when the client is still not connected
after_connect(is_connected) == IF is_connected THEN "list" ELSE "idle"

\* lines 106-110 with the failure of torrents_info passed over: the cycle goes
\* on with an empty list
after_list_ignores_failure(ok) == "Sonarr"

\* lines 106-110: the cycle returns when the transfer list cannot be fetched
after_list(ok) == IF ok THEN "Sonarr" ELSE "idle"

\* lines 112-116 with the loop entered after the first queue fetch
after_queue_starts_early(app_name) == "loop"

\* lines 112-116: Sonarr's queue, then Radarr's, then Lidarr's, then the loop
after_queue(app_name) ==
    CASE app_name = "Sonarr" -> "Radarr"
      [] app_name = "Radarr" -> "Lidarr"
      [] OTHER -> "loop"

\* lines 112-114: what became of the queue fetch of one manager
fetch_status(enabled, ok) ==
    IF ~enabled THEN "disabled" ELSE IF ok THEN "done" ELSE "failed"

\* the queue responses with at most one record
ShortQueues(app_name) == {records \in QueueRecords(app_name) : Len(records) <= 1}

NoCycle ==
    [cycle |-> 0, attempted |-> FALSE, connect_ok |-> FALSE, listed |-> "pending",
     last |-> None,
     before |-> <<>>, fetched |-> [a \in AppSet |-> "pending"],
     maps |-> [a \in AppSet |-> <<>>], t_hash |-> NoHash,
     owner |-> <<None, NoQueueId>>]

\* the log of a cycle that starts after the cycle logged in c
new_cycle(c, table) ==
    [NoCycle EXCEPT !.cycle = 1 - c.cycle, !.last = c.last, !.before = table]

\* the cycle runs live with orphan removal on, so that every transfer of the
\* list without a protected tag is evaluated
CycleInit ==
    /\ torrent_strikes = <<>>
    /\ connected = FALSE
    /\ cfg = [dry_run |-> FALSE, rm_orphans |-> TRUE]
    /\ pc = "idle"
    /\ seen = {}
    /\ cur = NoCycle
    /\ ops = <<>>
    /\ acts = <<>>

\* lines 101-103 when not connected: connect_qbit is called
CycleConnect ==
    /\ pc = "idle"
    /\ ~connected
    /\ \E ok \in BOOLEAN :
          /\ connected' = connect_qbit(ok)
          /\ pc' = after_connect(connected')
          /\ cur' = [new_cycle(cur, torrent_strikes) EXCEPT
                        !.attempted = TRUE, !.connect_ok = ok,
                        !.last = IF pc' = "idle" THEN "connect_failed" ELSE cur.last]
    /\ seen' = {}
    /\ ops' = <<"connect_qbit">>
    /\ acts' = <<>>
    /\ UNCHANGED <<torrent_strikes, cfg>>

\* line 101 when connected: no connection attempt
CycleSkipConnect ==
    /\ pc = "idle"
    /\ connected
    /\ pc' = "list"
    /\ cur' = new_cycle(cur, torrent_strikes)
    /\ seen' = {}
    /\ ops' = <<>>
    /\ acts' = <<>>
    /\ UNCHANGED <<torrent_strikes, connected, cfg>>

\* lines 106-110: torrents_info
CycleList ==
    /\ pc = "list"
    /\ \E ok \in BOOLEAN :
          /\ pc' = after_list(ok)
          /\ cur' = [cur EXCEPT !.listed = IF ok THEN "ok" ELSE "failed",
                                !.last = IF pc' = "idle" THEN "list_failed" ELSE @]
    /\ ops' = Append(ops, "torrents_info")
    /\ UNCHANGED <<torrent_strikes, connected, cfg, seen, acts>>

\* lines 112-114: the queue fetch of the manager the cycle is at
CycleQueue ==
    /\ pc \in AppSet
    /\ \E enabled \in BOOLEAN, ok \in BOOLEAN, records \in ShortQueues(pc) :
          /\ cur' = [cur EXCEPT !.fetched[pc] = fetch_status(enabled, ok),
                                !.maps[pc] = fetch_map(enabled, records, ok),
                                !.before = IF after_queue(pc) = "loop" THEN <<>> ELSE @]
          /\ ops' = IF enabled THEN Append(ops, "get_arr_queue") ELSE ops
    /\ pc' = after_queue(pc)
    /\ UNCHANGED <<torrent_strikes, connected, cfg, seen, acts>>

\* lines 117-168 for the next transfer of the list
CycleIterate ==
    /\ pc = "loop"
    /\ \E hash \in Unseen, tv \in TagViews, reason \in Verdicts :
          LET own == find_owner(lower(hash), cur.maps["Sonarr"], cur.maps["Radarr"],
                                cur.maps["Lidarr"])
              r == iteration(torrent_strikes, lower(hash), tv, own, reason,
                             cfg.rm_orphans, cfg.rm_orphans, cfg.dry_run, StorageWorks)
          IN /\ torrent_strikes' = r.table
             /\ acts' = acts \o r.acts
             /\ cur' = [cur EXCEPT !.t_hash = lower(hash), !.owner = own]
             /\ seen' = seen \cup {lower(hash)}
    /\ UNCHANGED <<connected, cfg, pc, ops>>

\* the for loop is exhausted and run_cleaner_cycle returns
CycleEnd ==
    /\ pc = "loop"
    /\ pc' = "idle"
    /\ cur' = [cur EXCEPT !.last = "ran"]
    /\ UNCHANGED <<torrent_strikes, connected, cfg, seen, ops, acts>>

CycleNext ==
    \/ CycleConnect
    \/ CycleSkipConnect
    \/ CycleList
    \/ CycleQueue
    \/ CycleIterate
    \/ CycleEnd

SpecCycle == CycleInit /\ [][CycleNext]_vars

\* the connection attempt of the cycle logged in cur failed
ConnectFailed == cur.attempted /\ ~cur.connect_ok

\* the fetch of the transfer list failed in the cycle logged in cur
ListFailed == cur.listed = "failed"

\* C21: a cycle whose connection attempt failed, or whose fetch of the transfer
\* list failed, has ended and did no partial work: the ledger is the one the
\* cycle started with, no manager's queue was fetched and nothing was dispatched.
C21_AbortDoesNothing ==
    (ConnectFailed \/ ListFailed) =>
        /\ pc = "idle"
        /\ torrent_strikes = cur.before
        /\ \A a \in AppSet : cur.fetched[a] = "pending" /\ cur.maps[a] = <<>>
        /\ "get_arr_queue" \notin {ops[i] : i \in DOMAIN ops}
        /\ acts = <<>>
        /\ cur.t_hash = NoHash

\* C21 witness: the transfer list could not be fetched in a cycle that started
\* with strikes in the ledger, after a cycle that ran its loop
C21_Witness ==
    /\ ListFailed /\ pc = "idle"
    /\ ops = <<"torrents_info">>
    /\ torrent_strikes # <<>> /\ torrent_strikes = cur.before

----------------------------------------------------------------------------
(* The cleaner thread calls run_cleaner_cycle again and again (threads.py  *)
(* lines 54-64), and every step inside a cycle is sequential code whose    *)
(* network calls have timeouts, so a step that can be taken is taken.      *)
SpecCycleFair == SpecCycle /\ WF_vars(CycleNext)

\* the cycle logged in cur connected and fetched the transfer list
ListFetched == cur.attempted /\ cur.connect_ok /\ cur.listed = "ok"

\* C22: after a cycle that returned because its connection attempt failed, the
\* next cycle comes and calls connect_qbit again; a cycle whose attempt succeeds
\* and whose transfer list is fetched reaches the loop over the transfers.
C22_FailedConnectIsRetried ==
    /\ [][(pc = "idle" /\ ConnectFailed /\ cur'.cycle # cur.cycle) =>
             (cur'.attempted /\ ops' = <<"connect_qbit">>)]_vars
    /\ \A p \in {0, 1} :
          (pc = "idle" /\ ConnectFailed /\ cur.cycle = p) ~> (cur.cycle # p /\ cur.attempted)
    /\ (ListFetched /\ pc \in AppSet) ~> (pc = "loop")

\* C22 witness: the previous attempt failed, this cycle's attempt succeeded and
\* a transfer of the fetched list has been evaluated
C22_Witness ==
    /\ cur.last = "connect_failed"
    /\ ListFetched
    /\ pc = "loop" /\ cur.t_hash # NoHash

----------------------------------------------------------------------------
\* C28: when a transfer is classified, the queue fetch of every manager is
\* over: an enabled manager's fetch has returned its map or has failed and left
\* an empty one, and the owner of the transfer was looked up in these maps.
C28_MapsCompleteBeforeLoop ==
    (pc = "loop" /\ cur.t_hash # NoHash) =>
        /\ \A a \in AppSet :
              /\ cur.fetched[a] \in {"disabled", "done", "failed"}
              /\ cur.fetched[a] # "done" => cur.maps[a] = <<>>
        /\ cur.owner = find_owner(cur.t_hash, cur.maps["Sonarr"], cur.maps["Radarr"],
                                  cur.maps["Lidarr"])

\* C28 witness: a transfer was resolved to Lidarr, the last manager fetched,
\* after Sonarr's fetch failed and Radarr's returned another transfer
C28_Witness ==
    /\ pc = "loop" /\ cur.t_hash # NoHash
    /\ cur.fetched = [Sonarr |-> "failed", Radarr |-> "done", Lidarr |-> "done"]
    /\ cur.maps["Radarr"] # <<>>
    /\ cur.owner[1] = "Lidarr"

----------------------------------------------------------------------------
(* Removal calls that fail, and what the following cycles do.  SpecRetry   *)
(* runs cycles over transfers that are all evaluated (no protected tag,    *)
(* orphan removal on), with max_strikes editable at any time, the reset    *)
(* of line 159 able to fail in storage and every removal call able to fail *)
(* in transport.  cur holds the locals of the iteration: the count returned,  *)
(* the maximum it was compared with, whether the reset of line 159 worked, *)
(* the outcome of the removal call, and for the transfer the number of     *)
(* unhealthy cycles since its last failed or simulated removal (since) and *)
(* whether storage has worked for it since then (stored).  ops holds, per  *)
(* hash, that number (-1: no such removal, or a healthy cycle since) and   *)
(* that flag, whether a removal call failed in this cycle, and whether     *)
(* max_strikes was left alone and storage worked throughout the cycle      *)
(* (steady).                                                               *)

\* the fallback of line 202
DefaultMaxStrikes == 3

\* config.py lines 123-130 and 202: a setting that is disabled, missing, not a
\* number or not positive (modelled as 0) gives the fallback
MAX_STRIKES(setting) == IF setting > 0 THEN setting ELSE DefaultMaxStrikes

\* line 158 with > in the place of >=
reached_strictly(current_strikes, max_strikes) == current_strikes > max_strikes

\* line 158: if current_strikes >= cfg.MAX_STRIKES
reached(current_strikes, max_strikes) == current_strikes >= max_strikes

\* the try blocks of lines 68-75, 83-87 and 93-97: no call under dry-run, else
\* the call goes through or raises
transport(calls, ok) ==
    IF calls = <<>> THEN "simulated" ELSE IF ok THEN "sent" ELSE "failed"

\* the except clauses of lines 74, 86 and 96 missing: the exception of a failed
\* call leaves run_cleaner_cycle
after_removal_raises(outcome) == IF outcome = "failed" THEN "idle" ELSE "loop"

\* lines 74-75, 86-87, 96-97: the exception is caught and the loop goes on
after_removal(outcome) == "loop"

RetryCfgs == [dry_run : BOOLEAN, rm_orphans : {TRUE}, max_strikes : 0..MaxStrikes]

\* what the loop finds about a transfer: <<owner_app, queue_id, is_private>>
RetryTargets ==
    {<<"Radarr", QueueIdBase("Radarr") + 1, FALSE>>, <<None, NoQueueId, FALSE>>,
     <<None, NoQueueId, TRUE>>}

NoTry ==
    [t_hash |-> NoHash, owner_app |-> None, queue_id |-> NoQueueId, is_private |-> FALSE,
     strike_reason |-> None, current_strikes |-> -1, max_strikes |-> 0,
     clear_ok |-> TRUE, transport |-> None, since |-> -1, stored |-> TRUE]

RetryInit ==
    /\ torrent_strikes = <<>>
    /\ connected = TRUE
    /\ cfg \in RetryCfgs
    /\ pc = "idle"
    /\ seen = {}
    /\ cur = NoTry
    /\ ops = [pending |-> [h \in Hashes |-> -1], stored |-> [h \in Hashes |-> TRUE],
              failed |-> FALSE, steady |-> TRUE]
    /\ acts = <<>>

\* the max_strikes setting of the configuration file is edited
RetryConfigEdit ==
    /\ \E setting \in (0..MaxStrikes) \ {cfg.max_strikes} :
          cfg' = [cfg EXCEPT !.max_strikes = setting]
    /\ ops' = [ops EXCEPT !.steady = FALSE]
    /\ UNCHANGED <<torrent_strikes, connected, pc, seen, cur, acts>>

\* lines 101-114
RetryStart ==
    /\ pc = "idle"
    /\ pc' = "loop"
    /\ seen' = {}
    /\ cur' = NoTry
    /\ ops' = [ops EXCEPT !.failed = FALSE, !.steady = TRUE]
    /\ acts' = <<>>
    /\ UNCHANGED <<torrent_strikes, connected, cfg>>

\* lines 143-165: a reason, update_strike, and at the threshold clear_strikes
\* and the removal call
RetryStrike ==
    /\ pc = "loop"
    /\ \E hash \in Unseen, own \in RetryTargets, reason \in Verdicts \ {None},
          ok_clear \in BOOLEAN, ok_call \in BOOLEAN :
          LET t_hash == lower(hash)
              r == update_strike(torrent_strikes, t_hash, reason, TRUE)
              max_strikes == MAX_STRIKES(cfg.max_strikes)
              hit == reached(r[2], max_strikes)
              since == IF ops.pending[t_hash] < 0 THEN -1
                       ELSE IF ops.pending[t_hash] < MaxCount THEN ops.pending[t_hash] + 1
                       ELSE MaxCount
              c == [t_hash |-> t_hash, owner_app |-> own[1], queue_id |-> own[2],
                    is_private |-> own[3], strike_reason |-> reason,
                    current_strikes |-> r[2], max_strikes |-> max_strikes,
                    clear_ok |-> ok_clear, transport |-> None,
                    since |-> since, stored |-> ops.stored[t_hash]]
              dispatches == IF hit THEN dispatch_removal(c, cfg.rm_orphans, cfg.dry_run)
                            ELSE <<>>
              outcome == IF hit THEN transport(dispatches[1].calls, ok_call) ELSE None
              again == outcome \in {"failed", "simulated"}
          IN /\ get_strikes(torrent_strikes, t_hash, TRUE) < MaxCount
             /\ hit \/ (ok_clear /\ ok_call)
             /\ ok_call \/ outcome = "failed"
             /\ torrent_strikes' = IF hit THEN clear_strikes(r[1], t_hash, ok_clear) ELSE r[1]
             /\ acts' = dispatches
             /\ cur' = [c EXCEPT !.transport = outcome]
             /\ ops' = [ops EXCEPT
                           !.pending[t_hash] = IF ~hit THEN since ELSE IF again THEN 0 ELSE -1,
                           !.stored[t_hash] = IF ~hit THEN @ ELSE IF again THEN ok_clear ELSE TRUE,
                           !.failed = @ \/ outcome = "failed",
                           !.steady = @ /\ ok_clear]
             /\ pc' = IF hit THEN after_removal(outcome) ELSE "loop"
             /\ seen' = seen \cup {t_hash}
    /\ UNCHANGED <<connected, cfg>>

\* lines 166-168: no reason; a row with strikes is deleted
RetryRecover ==
    /\ pc = "loop"
    /\ None \in Verdicts
    /\ \E hash \in Unseen :
          LET t_hash == lower(hash)
              found == get_strikes(torrent_strikes, t_hash, TRUE) > 0
          IN /\ torrent_strikes' = IF found THEN clear_strikes(torrent_strikes, t_hash, TRUE)
                                   ELSE torrent_strikes
             /\ cur' = [NoTry EXCEPT !.t_hash = t_hash]
             /\ ops' = [ops EXCEPT !.pending[t_hash] = -1, !.stored[t_hash] = TRUE]
             /\ seen' = seen \cup {t_hash}
    /\ acts' = <<>>
    /\ UNCHANGED <<connected, cfg, pc>>

\* the for loop is exhausted and run_cleaner_cycle returns
RetryEnd ==
    /\ pc = "loop"
    /\ pc' = "idle"
    /\ cur' = NoTry
    /\ acts' = <<>>
    /\ UNCHANGED <<torrent_strikes, connected, cfg, seen, ops>>

RetryNext ==
    \/ RetryConfigEdit
    \/ RetryStart
    \/ RetryStrike
    \/ RetryRecover
    \/ RetryEnd

SpecRetry == RetryInit /\ [][RetryNext]_vars

\* C23: a removal call that fails in transport is caught: the step that makes
\* it leaves the cleaner inside the loop with the transfers not yet reached
\* still to come, and the row that the reset of line 159 deleted is not back.
C23_FailedCallIsCaught ==
    [][(cur'.transport = "failed" /\ seen' # seen) =>
          /\ pc' = "loop"
          /\ seen' = seen \cup {cur'.t_hash}
          /\ cur'.clear_ok => cur'.t_hash \notin DOMAIN torrent_strikes'
      ]_vars

\* C23 witness: a removal call failed in this cycle, its row is gone, and the
\* transfer that followed got its first strike
C23_Witness ==
    /\ pc = "loop" /\ ops.failed
    /\ cur.transport # "failed" /\ cur.current_strikes = 1
    /\ DOMAIN torrent_strikes = {cur.t_hash}
    /\ Cardinality(seen) = 2

\* C24: the first unhealthy cycle after a failed or simulated removal records
\* strike 1, and a removal is dispatched again only when the unhealthy cycles
\* since then have reached the maximum.
C24_FreshCountAfterFailedRemoval ==
    /\ cur.since = 1 => cur.current_strikes = 1
    /\ (acts # <<>> /\ cur.since >= 1) => cur.since >= cur.max_strikes

\* C24, amended: the same when storage has worked for the transfer since the
\* reset that came before the failed or simulated removal.
C24_FreshCountAfterFailedRemovalIfStored ==
    cur.stored =>
        /\ cur.since = 1 => cur.current_strikes = 1
        /\ (acts # <<>> /\ cur.since >= 1) => cur.since >= cur.max_strikes

\* C24 witness: a live removal call failed, and a removal is dispatched again
\* after two further unhealthy cycles with a maximum of two
C24_Witness ==
    /\ ~cfg.dry_run /\ cur.stored
    /\ cur.since = 2 /\ cur.max_strikes = 2 /\ cur.current_strikes = 2
    /\ acts # <<>>

\* C30: when max_strikes was left alone and storage worked throughout a cycle,
\* at the end of the cycle every transfer evaluated in it has a count below
\* the maximum: no row, or a row with 1 to max-strikes - 1 strikes.
C30_BelowMaxAtCycleEnd ==
    (pc = "idle" /\ ops.steady) =>
        \A h \in seen : StoredStrikes(h) < MAX_STRIKES(cfg.max_strikes)

\* C30 witness: a cycle ends with one evaluated transfer one strike short of the
\* maximum and another one without a row
C30_Witness ==
    /\ pc = "idle" /\ ops.steady
    /\ \E h \in seen : StoredStrikes(h) = MAX_STRIKES(cfg.max_strikes) - 1 /\ StoredStrikes(h) >= 1
    /\ \E h \in seen : StoredStrikes(h) = 0

----------------------------------------------------------------------------
\* C25: the owner of a transfer is the first of Sonarr, Radarr, Lidarr whose
\* map holds its hash, with the queue entry id of that manager's map, and there
\* is no owner when no map holds it.
C25_OwnerByPrecedence ==
    LET rank == [a \in AppSet |->
                    CASE a = "Sonarr" -> 1 [] a = "Radarr" -> 2 [] OTHER -> 3]
        holders == {a \in AppSet : cur.t_hash \in DOMAIN cur.maps[a]}
    IN cur.t_hash # NoHash =>
          IF holders = {} THEN cur.owner = <<None, NoQueueId>>
          ELSE \E a \in holders :
                  /\ \A b \in holders : rank[a] <= rank[b]
                  /\ cur.owner = <<a, cur.maps[a][cur.t_hash].id>>

\* C25 witness: the hash is in the maps of Radarr and Lidarr under different
\* queue entry ids, and the transfer is Radarr's
C25_Witness ==
    /\ cur.t_hash # NoHash
    /\ cur.t_hash \notin DOMAIN cur.maps["Sonarr"]
    /\ cur.t_hash \in DOMAIN cur.maps["Radarr"]
    /\ cur.t_hash \in DOMAIN cur.maps["Lidarr"]
    /\ cur.owner = <<"Radarr", cur.maps["Radarr"][cur.t_hash].id>>
    /\ cur.maps["Lidarr"][cur.t_hash].id # cur.owner[2]

\* C26: the key the loop uses for a transfer is its hash in lower case, and a
\* transfer whose hash equals, up to letter case, a download id of a fetched
\* queue is in that manager's map and is owned by a manager whose queue lists it.
C26_MatchIgnoresCase ==
    LET fold(s) == [i \in DOMAIN s |-> LowerChar(s[i])]
        listing == {a \in AppSet :
                       /\ cur.enabled[a] /\ cur.ok[a]
                       /\ \E i \in DOMAIN cur.records[a] :
                             /\ cur.records[a][i].downloadId # <<>>
                             /\ fold(cur.records[a][i].downloadId) = fold(cur.hash)}
    IN cur.t_hash # NoHash =>
          /\ cur.t_hash = fold(cur.hash)
          /\ \A a \in listing : cur.t_hash \in DOMAIN cur.maps[a]
          /\ listing # {} => cur.owner[1] \in listing

\* C26 witness: the client reports the hash in upper case, Radarr's queue lists
\* it in lower case, and the transfer is Radarr's
C26_Witness ==
    /\ cur.hash = <<"C", "D">>
    /\ cur.enabled["Radarr"] /\ cur.ok["Radarr"]
    /\ \E i \in DOMAIN cur.records["Radarr"] :
          cur.records["Radarr"][i].downloadId = <<"c", "d">>
    /\ cur.owner[1] = "Radarr"

----------------------------------------------------------------------------
(* cleaner_thread (threads.py lines 48-67).  In SpecThread pc is the       *)
(* position of the thread: at the test of line 56, inside the call of line *)
(* 60, at the assignment of line 61, in the sleep of line 64 or in the     *)
(* sleep of line 67.  cur holds the clock and last_run, both in minutes,   *)
(* the number of cycles started so far, counted up to two, what the test   *)
(* of line 56 found in the iteration before (prev), the minute in which    *)
(* the latest cycle started (last_start, 0 for none) and whether the       *)
(* cleaner has stayed enabled since then (stayed).  cfg holds              *)
(* enable_cleaner and the cleaner interval.  acts holds the executions of  *)
(* run_cleaner_cycle in progress: for each the ids it has been through and *)
(* the id it is striking.                                                  *)

MaxClock == 4         \* minutes the clock runs for

ThreadCfgs == [enabled : BOOLEAN, run_every : 1..2]

\* line 58: now - last_run >= cfg.CLEANER_RUN_EVERY * 60 or last_run == 0
due(now, last_run, run_every) == now - last_run >= run_every \/ last_run = 0

\* line 60 as the start of a background task: the thread does not wait
invoke_cycle_detached == "stamp"

\* line 60: an ordinary call; the thread is inside run_cleaner_cycle until it
\* returns or raises
invoke_cycle == "in_cycle"

\* an execution of run_cleaner_cycle that has just been entered
NewRun == [seen |-> {}, t_hash |-> NoHash]

\* the executions in progress without the i-th
Without(runs, i) == [k \in 1..(Len(runs) - 1) |-> IF k < i THEN runs[k] ELSE runs[k + 1]]

ThreadInit ==
    /\ torrent_strikes = <<>>
    /\ connected = FALSE
    /\ cfg \in ThreadCfgs
    /\ pc = "check"
    /\ seen = {}
    /\ cur = [now |-> 1, last_run |-> 0, started |-> 0, prev |-> None,
              last_start |-> 0, stayed |-> FALSE]
    /\ ops = <<>>
    /\ acts = <<>>

\* the configuration file is edited
ThreadConfigEdit ==
    /\ cfg' \in ThreadCfgs \ {cfg}
    /\ cur' = [cur EXCEPT !.stayed = @ /\ cfg'.enabled]
    /\ UNCHANGED <<torrent_strikes, connected, pc, seen, ops, acts>>

\* lines 56-63: the test of the switch and of the interval
ThreadCheck ==
    /\ pc = "check"
    /\ IF cfg.enabled
       THEN IF due(cur.now, cur.last_run, cfg.run_every)
            THEN /\ acts' = Append(acts, NewRun)
                 /\ pc' = invoke_cycle
                 /\ cur' = [cur EXCEPT !.started = IF @ < 2 THEN @ + 1 ELSE @,
                                       !.prev = "enabled", !.last_start = cur.now,
                                       !.stayed = TRUE]
            ELSE /\ pc' = "sleep"
                 /\ cur' = [cur EXCEPT !.prev = "enabled"]
                 /\ UNCHANGED acts
       ELSE /\ cur' = [cur EXCEPT !.last_run = 0, !.prev = "disabled", !.stayed = FALSE]
            /\ pc' = "sleep"
            /\ UNCHANGED acts
    /\ UNCHANGED <<torrent_strikes, connected, cfg, seen, ops>>

\* an execution of run_cleaner_cycle goes on to the next transfer of its list
ThreadRunStep ==
    /\ \E i \in DOMAIN acts, hash \in TorrentHashes :
          /\ lower(hash) \notin acts[i].seen
          /\ acts' = [acts EXCEPT ![i] = [seen |-> @.seen \cup {lower(hash)},
                                          t_hash |-> lower(hash)]]
    /\ UNCHANGED <<torrent_strikes, connected, cfg, pc, seen, cur, ops>>

\* a minute passes while the thread is inside the call
ThreadRunTick ==
    /\ pc = "in_cycle"
    /\ cur.now < MaxClock
    /\ cur' = [cur EXCEPT !.now = @ + 1]
    /\ UNCHANGED <<torrent_strikes, connected, cfg, pc, seen, ops, acts>>

\* an execution of run_cleaner_cycle returns
ThreadRunReturn ==
    /\ \E i \in DOMAIN acts : acts' = Without(acts, i)
    /\ pc' = IF pc = "in_cycle" THEN "stamp" ELSE pc
    /\ UNCHANGED <<torrent_strikes, connected, cfg, seen, cur, ops>>

\* an execution of run_cleaner_cycle raises; line 65 catches
ThreadRunRaise ==
    /\ \E i \in DOMAIN acts : acts' = Without(acts, i)
    /\ pc' = IF pc = "in_cycle" THEN "crashed" ELSE pc
    /\ UNCHANGED <<torrent_strikes, connected, cfg, seen, cur, ops>>

\* line 61: last_run = time.time()
ThreadStamp ==
    /\ pc = "stamp"
    /\ cur' = [cur EXCEPT !.last_run = cur.now]
    /\ pc' = "sleep"
    /\ UNCHANGED <<torrent_strikes, connected, cfg, seen, ops, acts>>

\* line 64: time.sleep(1); the minute may or may not turn
ThreadSleep ==
    /\ pc = "sleep"
    /\ \E d \in {0, 1} :
          /\ cur.now + d <= MaxClock
          /\ cur' = [cur EXCEPT !.now = @ + d]
    /\ pc' = "check"
    /\ UNCHANGED <<torrent_strikes, connected, cfg, seen, ops, acts>>

\* line 67: time.sleep(60)
ThreadCrashSleep ==
    /\ pc = "crashed"
    /\ cur.now < MaxClock
    /\ cur' = [cur EXCEPT !.now = @ + 1]
    /\ pc' = "check"
    /\ UNCHANGED <<torrent_strikes, connected, cfg, seen, ops, acts>>

ThreadNext ==
    \/ ThreadConfigEdit
    \/ ThreadCheck
    \/ ThreadRunStep
    \/ ThreadRunTick
    \/ ThreadRunReturn
    \/ ThreadRunRaise
    \/ ThreadStamp
    \/ ThreadSleep
    \/ ThreadCrashSleep

SpecThread == ThreadInit /\ [][ThreadNext]_vars

\* C27: at most one execution of run_cleaner_cycle is in progress, the thread
\* is inside its call for as long as it is, and no two executions are at the
\* same id.
C27_CyclesNeverOverlap ==
    /\ Len(acts) <= 1
    /\ acts # <<>> => pc = "in_cycle"
    /\ \A i, j \in DOMAIN acts :
          (i # j /\ acts[i].t_hash # NoHash) => acts[i].t_hash # acts[j].t_hash

\* C27 witness: the second cycle is striking an id, after the first one has
\* returned or raised
C27_Witness ==
    /\ cur.started = 2
    /\ Len(acts) = 1 /\ acts[1].t_hash # NoHash

----------------------------------------------------------------------------
(* Two update_strike calls for different hashes running at the same time   *)
(* (database.py lines 83-102), each on its own connection.  In SpecRace    *)
(* torrent_strikes is the committed table, cur holds the table before the  *)
(* calls and, per call, its hash, its position (the SELECT of line 88, the *)
(* UPDATE or INSERT of lines 90-97, the commit of line 98, returned), the  *)
(* count it read, the count it returns, whether it ended without an        *)
(* exception and whether it read while the other call was between its read *)
(* and its commit; ops holds the call that has the write lock of the database   *)
(* file, or 0.                                                             *)

Callers == {1, 2}

\* the tables the calls may start from: every hash without a row or with a count
RaceTables ==
    UNION {[present -> [strikes : 1..(MaxCount - 1), reason : {"Stalled (No Seeds)"}]] :
              present \in SUBSET Hashes}

\* lines 88-89: the count of the row read, 0 when there is none
select_strikes(table, torrent_hash) ==
    IF torrent_hash \in DOMAIN table THEN table[torrent_hash].strikes ELSE 0

\* lines 92-93 with the WHERE clause missing: the UPDATE writes every row
write_strike_all_rows(table, torrent_hash, row, reason) ==
    IF row > 0
    THEN [h \in DOMAIN table |-> [strikes |-> row + 1, reason |-> reason]]
    ELSE (torrent_hash :> [strikes |-> 1, reason |-> reason]) @@ table

\* lines 90-98: the UPDATE or INSERT of one row, from the count read before
write_strike(table, torrent_hash, row, reason) ==
    (torrent_hash :> [strikes |-> row + 1, reason |-> reason]) @@ table

RaceInit ==
    /\ torrent_strikes \in RaceTables
    /\ connected = TRUE
    /\ cfg = [dry_run |-> TRUE, rm_orphans |-> FALSE]
    /\ pc = "race"
    /\ seen = {}
    /\ \E h1 \in Hashes, h2 \in Hashes, r1 \in Reasons, r2 \in Reasons :
          /\ h1 # h2
          /\ cur = [before |-> torrent_strikes,
                    calls |-> [c \in Callers |->
                                  [torrent_hash |-> IF c = 1 THEN h1 ELSE h2,
                                   reason |-> IF c = 1 THEN r1 ELSE r2,
                                   at |-> "select", row |-> 0, returned |-> -1,
                                   ok |-> TRUE, raced |-> FALSE]]]
    /\ ops = 0
    /\ acts = <<>>

\* lines 88-89: SELECT strikes
RaceSelect ==
    /\ \E c \in Callers :
          /\ cur.calls[c].at = "select"
          /\ cur' = [cur EXCEPT !.calls[c].at = "write",
                                !.calls[c].row =
                                    select_strikes(torrent_strikes, cur.calls[c].torrent_hash),
                                !.calls[c].raced =
                                    \E o \in Callers \ {c} : cur.calls[o].at \in {"write", "commit"}]
    /\ UNCHANGED <<torrent_strikes, connected, cfg, pc, seen, ops, acts>>

\* lines 90-97: the UPDATE or INSERT takes the write lock, once it is free
RaceWrite ==
    /\ ops = 0
    /\ \E c \in Callers :
          /\ cur.calls[c].at = "write"
          /\ cur' = [cur EXCEPT !.calls[c].at = "commit"]
          /\ ops' = c
    /\ UNCHANGED <<torrent_strikes, connected, cfg, pc, seen, acts>>

\* lines 98-100: commit, close, return new_strikes
RaceCommit ==
    /\ \E c \in Callers :
          /\ cur.calls[c].at = "commit"
          /\ torrent_strikes' = write_strike(torrent_strikes, cur.calls[c].torrent_hash,
                                             cur.calls[c].row, cur.calls[c].reason)
          /\ cur' = [cur EXCEPT !.calls[c].at = "returned",
                                !.calls[c].returned = cur.calls[c].row + 1]
    /\ ops' = 0
    /\ UNCHANGED <<connected, cfg, pc, seen, acts>>

\* lines 101-102: an exception at any statement (the wait for the lock timing
\* out is one); nothing is written and 0 is returned
RaceFail ==
    /\ \E c \in Callers :
          /\ cur.calls[c].at \in {"select", "write", "commit"}
          /\ cur' = [cur EXCEPT !.calls[c].at = "returned", !.calls[c].returned = 0,
                                !.calls[c].ok = FALSE]
          /\ ops' = IF ops = c THEN 0 ELSE ops
    /\ UNCHANGED <<torrent_strikes, connected, cfg, pc, seen, acts>>

RaceNext == RaceSelect \/ RaceWrite \/ RaceCommit \/ RaceFail

SpecRace == RaceInit /\ [][RaceNext]_vars

\* both calls have returned
BothReturned == \A c \in Callers : cur.calls[c].at = "returned"

\* the calls run one after the other, first before second, with working storage
Sequential(first, second) ==
    update_strike(update_strike(cur.before, cur.calls[first].torrent_hash,
                                cur.calls[first].reason, TRUE)[1],
                  cur.calls[second].torrent_hash, cur.calls[second].reason, TRUE)[1]

\* what C29 says of two calls that have returned
RaceAsStated ==
    /\ \A c \in Callers :
          cur.calls[c].returned =
              get_strikes(cur.before, cur.calls[c].torrent_hash, TRUE) + 1
    /\ torrent_strikes = Sequential(1, 2)
    /\ torrent_strikes = Sequential(2, 1)

----------------------------------------------------------------------------
(* Frame of a cycle over the ledger, on the steps of Spec *)

\* the ledger row of an id, count and reason; no row reads as count 0
stored_row(table, torrent_hash) ==
    IF torrent_hash \in DOMAIN table
    THEN [strikes |-> table[torrent_hash].strikes, reason |-> table[torrent_hash].reason]
    ELSE [strikes |-> 0, reason |-> None]

\* C31: a step of the cycle changes the ledger row (count and reason) of no id
\* other than the one of the transfer it evaluates; the rows of ids absent from
\* the fetched list, of transfers that carry a protected tag and of orphans
\* passed over while remove-orphans is disabled are left exactly as they were.
C31_OnlyEvaluatedRowsChange ==
    [][\A torrent_hash \in Hashes :
          (torrent_hash # cur'.t_hash \/ cur'.tagged_protected \/ cur'.orphans_off)
              => stored_row(torrent_strikes', torrent_hash)
                    = stored_row(torrent_strikes, torrent_hash)]_vars

----------------------------------------------------------------------------
(* The four rules of the classifier one by one (lines 145, 147, 149, 151), *)
(* checked under SpecClassify.                                             *)

\* the strike reason of each rule, in the order of the if/elif chain
RuleReasons ==
    <<"Stuck Downloading Metadata", "Stalled (No Seeds)", "Downloading too slowly",
      "Critical Error State">>

\* the failed rule without its test of the state
rule_holds_failed_in_any_state(i, rc, t_state, t_time_active, dlspeed) ==
    CASE i = 1 -> rc.RM_META_MISSING /\ t_state = "metaDL"
                  /\ t_time_active > rc.TIMEOUT_METADATA
      [] i = 2 -> rc.RM_STALLED /\ t_state = "stalledDL"
                  /\ t_time_active > rc.TIMEOUT_STALLED
      [] i = 3 -> rc.RM_SLOW /\ t_state = "downloading" /\ t_time_active > 5
                  /\ dlspeed < rc.MIN_SPEED_KB * 1024
      [] i = 4 -> rc.RM_FAILED

\* the condition of the i-th rule
rule_holds(i, rc, t_state, t_time_active, dlspeed) ==
    CASE i = 1 -> rc.RM_META_MISSING /\ t_state = "metaDL"
                  /\ t_time_active > rc.TIMEOUT_METADATA
      [] i = 2 -> rc.RM_STALLED /\ t_state = "stalledDL"
                  /\ t_time_active > rc.TIMEOUT_STALLED
      [] i = 3 -> rc.RM_SLOW /\ t_state = "downloading" /\ t_time_active > 5
                  /\ dlspeed < rc.MIN_SPEED_KB * 1024
      [] i = 4 -> rc.RM_FAILED /\ t_state \in {"error", "missingFiles"}

\* the rules whose condition holds of the observation in cur
RulesHolding ==
    {i \in DOMAIN RuleReasons :
        rule_holds(i, cur.rc, cur.t_state, cur.t_time_active, cur.dlspeed)}

\* every order in which the four rules can be evaluated
RuleOrders ==
    {order \in [DOMAIN RuleReasons -> DOMAIN RuleReasons] :
        \A i, j \in DOMAIN order : i # j => order[i] # order[j]}

\* first match wins, with the rules evaluated in the given order
first_match(order, holding) ==
    IF \A k \in DOMAIN order : order[k] \notin holding
    THEN None
    ELSE LET k == CHOOSE n \in DOMAIN order :
                      order[n] \in holding /\ \A m \in 1..(n - 1) : order[m] \notin holding
         IN RuleReasons[order[k]]

\* C32: of every observation at most one rule's condition holds, and the rules
\* evaluated first-match-wins in any order give the reason the classifier gives.
C32_RulesMutuallyExclusive ==
    pc = "classified" =>
        /\ Cardinality(RulesHolding) <= 1
        /\ \A order \in RuleOrders : first_match(order, RulesHolding) = cur.strike_reason

\* C32 witness: the last rule of the chain is the one that holds, on a transfer
\* old enough and slow enough for the time and rate tests of the other rules
C32_Witness ==
    /\ pc = "classified"
    /\ RulesHolding = {4}
    /\ cur.rc.RM_META_MISSING /\ cur.rc.RM_STALLED /\ cur.rc.RM_SLOW
    /\ cur.t_time_active > cur.rc.TIMEOUT_METADATA
    /\ cur.t_time_active > cur.rc.TIMEOUT_STALLED
    /\ cur.dlspeed < cur.rc.MIN_SPEED_KB * 1024
    /\ cur.strike_reason = "Critical Error State"

----------------------------------------------------------------------------
\* the URL and API key of a content manager, as get_arr_queue is given them
\* at lines 112-114
manager_address(app_name) ==
    CASE app_name = "Sonarr" -> [url |-> "SONARR_URL", api_key |-> "SONARR_API_KEY"]
      [] app_name = "Radarr" -> [url |-> "RADARR_URL", api_key |-> "RADARR_API_KEY"]
      [] app_name = "Lidarr" -> [url |-> "LIDARR_URL", api_key |-> "LIDARR_API_KEY"]

\* C33: an owned transfer that carries a private-tracker tag and reaches the
\* threshold gets the one dispatch a non-private owned transfer gets: to
\* remove_via_arr, which in live mode issues one queue-entry delete to the owning
\* manager with removeFromClient and blocklist set; it is never tagged obsolete.
C33_PrivateTagOnlyMattersForOrphans ==
    (IterationDone /\ Reached /\ cur.owner_app # None /\ cur.tagged_private) =>
        /\ Len(acts) = 1
        /\ acts = dispatch_removal([cur EXCEPT !.tagged_private = FALSE,
                                               !.is_private = FALSE],
                                   TRUE, acts[1].dry_run)
        /\ acts[1].fn = "remove_via_arr"
        /\ \A i \in DOMAIN IssuedCalls : IssuedCalls[i].op # "torrents_add_tags"
        /\ ~acts[1].dry_run =>
              /\ Len(IssuedCalls) = 1
              /\ IsQueueDelete(IssuedCalls[1], cur.queue_id)
              /\ IssuedCalls[1].url = manager_address(cur.owner_app).url
              /\ IssuedCalls[1].api_key = manager_address(cur.owner_app).api_key

----------------------------------------------------------------------------
(* The configuration manager (config.py).  A value of config.yml, as       *)
(* yaml.safe_load hands it over, is a record [kind, n, s]: kind is one of  *)
(* "none" (a key with no value), "bool" (n is 0 or 1), "int" (n is the     *)
(* number), "float" (n is the number in tenths; s is <<"finite">>, <<"inf">>*)
(* or <<"nan">>), "str" (s is the text, a sequence of characters), "list" (n *)
(* is the number of elements).  raw_cfg is a function from the keys that   *)
(* are present to such values.  What a call gives back is such a value, or *)
(* [kind |-> "raise", s |-> <<the exception's class>>].                    *)

PyNone == [kind |-> "none", n |-> 0, s |-> <<>>]
PyBool(b) == [kind |-> "bool", n |-> IF b THEN 1 ELSE 0, s |-> <<>>]
PyInt(n) == [kind |-> "int", n |-> n, s |-> <<>>]
PyFloat(tenths, s) == [kind |-> "float", n |-> tenths, s |-> <<s>>]
PyStr(s) == [kind |-> "str", n |-> 0, s |-> s]
PyList(n) == [kind |-> "list", n |-> n, s |-> <<>>]
Raise(class) == [kind |-> "raise", n |-> 0, s |-> <<class>>]

\* bool(val)
truthy(val) ==
    CASE val.kind = "none" -> FALSE
      [] val.kind \in {"bool", "int", "list"} -> val.n # 0
      [] val.kind = "float" -> val.s # <<"finite">> \/ val.n # 0
      [] val.kind = "str" -> val.s # <<>>

\* x or default
py_or(x, default) ==
    IF x.kind = "raise" THEN x ELSE IF truthy(x) THEN x ELSE default

\* dict.get(key, default)
dict_get(d, key, default) == IF key \in DOMAIN d THEN d[key] ELSE default

Digits == <<"0", "1", "2", "3", "4", "5", "6", "7", "8", "9">>
IsDigit(c) == \E i \in DOMAIN Digits : Digits[i] = c
DigitValue(c) == (CHOOSE i \in DOMAIN Digits : Digits[i] = c) - 1

RECURSIVE strip(_)
\* str.strip() of blanks
strip(s) ==
    IF s = <<>> THEN s
    ELSE IF Head(s) = " " THEN strip(Tail(s))
    ELSE IF s[Len(s)] = " " THEN strip(SubSeq(s, 1, Len(s) - 1))
    ELSE s

RECURSIVE digits_value(_)
digits_value(s) ==
    IF s = <<>> THEN 0
    ELSE 10 * digits_value(SubSeq(s, 1, Len(s) - 1)) + DigitValue(s[Len(s)])

\* int(val): the number, or the exception int() raises
py_int(val) ==
    CASE val.kind \in {"bool", "int"} -> PyInt(val.n)
      [] val.kind = "float" ->
            IF val.s = <<"inf">> THEN Raise("OverflowError")
            ELSE IF val.s = <<"nan">> THEN Raise("ValueError")
            ELSE IF val.n >= 0 THEN PyInt(val.n \div 10) ELSE PyInt(-((-val.n) \div 10))
      [] val.kind = "str" ->
            LET t == strip(val.s)
                signed == t # <<>> /\ Head(t) \in {"-", "+"}
                body == IF signed THEN Tail(t) ELSE t
            IN IF body # <<>> /\ \A i \in DOMAIN body : IsDigit(body[i])
               THEN PyInt(IF signed /\ Head(t) = "-" THEN -digits_value(body)
                          ELSE digits_value(body))
               ELSE Raise("ValueError")
      [] val.kind \in {"none", "list"} -> Raise("TypeError")

\* lines 112-138, after the reload of line 109: the value, False, or the
\* exception that int() raises and line 129 does not catch
get_setting(raw_cfg, enable_key, val_key, expected_type) ==
    LET is_enabled == dict_get(raw_cfg, enable_key, PyBool(FALSE))
        val == dict_get(raw_cfg, val_key, PyNone)
    IN IF ~truthy(is_enabled) THEN PyBool(FALSE)
       ELSE IF val.kind = "none" \/ val = PyStr(<<>>) THEN PyBool(FALSE)
       ELSE IF expected_type = "int"
       THEN LET r == py_int(val)
            IN IF r.kind = "raise"
               THEN IF r.s = <<"ValueError">> THEN PyBool(FALSE) ELSE r
               ELSE IF r.n <= 0 THEN PyBool(FALSE) ELSE r
       ELSE IF expected_type = "list"
       THEN LET v == IF val.kind = "str" THEN PyList(Len(split(val.s))) ELSE val
            IN IF ~truthy(v) THEN PyBool(FALSE) ELSE v
       ELSE val

\* the integer settings: property, enable key, value key, fallback
IntSettings ==
    {<<"MAX_STRIKES", "enable_max_strikes", "max_strikes", DefaultMaxStrikes>>,
     <<"SEARCH_RUN_EVERY", "enable_run_every_minutes", "run_every_minutes", 15>>,
     <<"CLEANER_RUN_EVERY", "enable_torrent_handling_timer",
       "torrent_handling_timer_minutes", 20>>,
     <<"MANUAL_IMPORT_INTERVAL", "enable_manual_import_scan_interval",
       "manual_import_scan_interval_minutes", 5>>}

TimerProperties == {"SEARCH_RUN_EVERY", "CLEANER_RUN_EVERY", "MANUAL_IMPORT_INTERVAL"}

\* lines 188, 190, 202, 251: what the get_setting call of the property returns
int_setting(raw_cfg, name) ==
    LET setting == CHOOSE x \in IntSettings : x[1] = name
    IN get_setting(raw_cfg, setting[2], setting[3], "int")

\* lines 188, 190, 202, 251: get_setting(enable key, value key, int) or fallback
int_property(raw_cfg, name) ==
    LET setting == CHOOSE x \in IntSettings : x[1] = name
    IN py_or(int_setting(raw_cfg, name), PyInt(setting[4]))

\* DRY_RUN with the fallback of RM_ORPHANS
DRY_RUN_defaults_to_live(raw_cfg) == dict_get(raw_cfg, "dry_run", PyBool(FALSE))

\* line 146, after the reload
DRY_RUN(raw_cfg) == dict_get(raw_cfg, "dry_run", PyBool(TRUE))

\* line 219, after the reload
RM_ORPHANS(raw_cfg) == dict_get(raw_cfg, "enable_remove_orphans", PyBool(FALSE))

(* SpecSetting reads the settings of one loaded configuration: the file is  *)
(* left alone after the load, so the reload in front of every read does    *)
(* nothing.  cfg holds [raw_cfg, last_mtime]; torrent_strikes is the       *)
(* ledger; ops holds the property read last, what its get_setting call     *)
(* returned (got) and what the read gave (value); cur                      *)
(* holds the locals of one loop iteration of the cleaner on an unhealthy   *)
(* transfer (lines 156-165), with the value cfg.MAX_STRIKES gave, and acts *)
(* the dispatches of that iteration.                                       *)

YamlValues ==
    {PyNone, PyBool(TRUE), PyBool(FALSE)}
    \cup {PyInt(n) : n \in -1..MaxStrikes}
    \cup {PyFloat(5, "finite"), PyFloat(25, "finite"), PyFloat(-5, "finite"),
          PyFloat(0, "inf"), PyFloat(0, "nan")}
    \cup {PyStr(s) : s \in {<<>>, <<"a", "b", "c">>, <<"2">>, <<" ", "2", " ">>, <<"0">>,
                            <<"-", "1">>, <<"+", "1">>, <<"2", ".", "5">>, <<"1", "0">>}}
    \cup {PyList(0), PyList(1)}

SwitchValues == {PyBool(TRUE), PyBool(FALSE), PyNone, PyInt(0), PyStr(<<"n", "o">>)}

\* a key left out of the file, or set to one of the values
Optional(key, values) == {<<>>} \cup {key :> v : v \in values}

\* configurations that set at most one integer setting, with or without its
\* switch, and may set dry_run and enable_remove_orphans
RawCfgs ==
    UNION {{dry @@ orphans @@ switch @@ val :
               dry \in Optional("dry_run", {PyBool(TRUE), PyBool(FALSE), PyNone}),
               orphans \in Optional("enable_remove_orphans", {PyBool(TRUE)}),
               switch \in Optional(setting[2], SwitchValues),
               val \in Optional(setting[3], YamlValues)} : setting \in IntSettings}

PropertyNames == {setting[1] : setting \in IntSettings} \cup {"DRY_RUN"}

SettingHash == lower(<<"C", "D">>)

NoRead == [name |-> None, got |-> PyNone, value |-> PyNone]

SettingInit ==
    /\ \E k \in 0..(MaxCount - 1) :
          torrent_strikes = IF k = 0 THEN <<>>
                            ELSE (SettingHash :> [strikes |-> k, reason |-> "Stalled (No Seeds)"])
    /\ connected = TRUE
    /\ \E raw_cfg \in RawCfgs : cfg = [raw_cfg |-> raw_cfg, last_mtime |-> 1]
    /\ pc = "loaded"
    /\ seen = {}
    /\ cur = NoTry
    /\ ops = NoRead
    /\ acts = <<>>

\* one property of cfg is read
SettingRead ==
    /\ pc = "loaded"
    /\ \E name \in PropertyNames :
          ops' = [name |-> name,
                  got |-> IF name = "DRY_RUN" THEN PyNone
                          ELSE int_setting(cfg.raw_cfg, name),
                  value |-> IF name = "DRY_RUN" THEN DRY_RUN(cfg.raw_cfg)
                            ELSE int_property(cfg.raw_cfg, name)]
    /\ pc' = "read"
    /\ UNCHANGED <<torrent_strikes, connected, cfg, seen, cur, acts>>

\* lines 141-165 on an unhealthy transfer: update_strike, the read of
\* cfg.MAX_STRIKES (an exception of the read leaves the cycle at line 157), the
\* comparison, clear_strikes and the removal
SettingStrike ==
    /\ pc = "loaded"
    /\ \E own \in RetryTargets, ok \in BOOLEAN :
          LET r == update_strike(torrent_strikes, SettingHash, "Stalled (No Seeds)", ok)
              max_strikes == int_property(cfg.raw_cfg, "MAX_STRIKES")
              rm_orphans == truthy(RM_ORPHANS(cfg.raw_cfg))
              c == [NoTry EXCEPT !.t_hash = SettingHash, !.owner_app = own[1],
                                 !.queue_id = own[2], !.is_private = own[3],
                                 !.strike_reason = "Stalled (No Seeds)",
                                 !.current_strikes = r[2]]
          IN /\ ~skip_orphan(own[1], rm_orphans)
             /\ ops' = [name |-> "MAX_STRIKES",
                        got |-> int_setting(cfg.raw_cfg, "MAX_STRIKES"),
                        value |-> max_strikes]
             /\ cur' = c
             /\ IF max_strikes.kind = "raise"
                THEN /\ torrent_strikes' = r[1]
                     /\ acts' = <<>>
                     /\ pc' = "raised"
                ELSE IF reached(r[2], max_strikes.n)
                THEN /\ torrent_strikes' = clear_strikes(r[1], SettingHash, ok)
                     /\ acts' = dispatch_removal(c, rm_orphans, truthy(DRY_RUN(cfg.raw_cfg)))
                     /\ pc' = "struck"
                ELSE /\ torrent_strikes' = r[1]
                     /\ acts' = <<>>
                     /\ pc' = "struck"
    /\ UNCHANGED <<connected, cfg, seen>>

SettingNext ==
    \/ SettingRead
    \/ SettingStrike

SpecSetting == SettingInit /\ [][SettingNext]_vars

\* the setting behind switch key and value key gives no usable number: it is
\* disabled (switch left out, empty or false), missing, empty, not a number
\* (text that is no number, or a list), zero or negative
NoUsableNumber(raw_cfg, enable_key, val_key) ==
    \/ enable_key \notin DOMAIN raw_cfg
    \/ raw_cfg[enable_key] \in {PyBool(FALSE), PyNone}
    \/ val_key \notin DOMAIN raw_cfg
    \/ LET val == raw_cfg[val_key]
       IN \/ val \in {PyNone, PyStr(<<>>)}
          \/ val.kind = "list"
          \/ val.kind = "str" /\ \E i \in DOMAIN val.s : val.s[i] \notin {"0", "1", "2", " ", "-", "+", "."}
          \/ val.kind = "int" /\ val.n <= 0
          \/ val \in {PyStr(<<"0">>), PyStr(<<"-", "1">>)}

\* C34: cfg.MAX_STRIKES always gives an integer of at least 1, and gives 3 for a
\* setting that is disabled, missing, empty, not a number, zero or negative; a
\* removal is dispatched only where update_strike returned a count of at least 1.
C34_EffectiveMaxAtLeastOne ==
    /\ ops.name = "MAX_STRIKES" =>
          /\ ops.value.kind = "int" /\ ops.value.n >= 1
          /\ NoUsableNumber(cfg.raw_cfg, "enable_max_strikes", "max_strikes") =>
                ops.value = PyInt(DefaultMaxStrikes)
    /\ acts # <<>> => cur.current_strikes >= 1

\* C35: get_setting returns False for a setting whose switch is left out or
\* false, whose value is missing or empty, or, for an integer setting, is zero,
\* negative or not a number; so every timer property is a positive integer,
\* whatever the configuration holds.
C35_TimersArePositive ==
    ops.name \in TimerProperties =>
        LET setting == CHOOSE x \in IntSettings : x[1] = ops.name
        IN /\ NoUsableNumber(cfg.raw_cfg, setting[2], setting[3]) => ops.got = PyBool(FALSE)
           /\ ops.value.kind = "int" /\ ops.value.n >= 1

\* C36: with a configuration that does not set dry_run, cfg.DRY_RUN reads True
\* and a removal dispatched by the cleaner issues no mutating call.
C36_AbsentDryRunIsDry ==
    "dry_run" \notin DOMAIN cfg.raw_cfg =>
        /\ ops.name = "DRY_RUN" => ops.value = PyBool(TRUE)
        /\ \A i \in DOMAIN acts : acts[i].calls = <<>>

\* C36 witness: no dry_run key, an orphan reached the threshold and its
\* removal was dispatched without a call
C36_Witness ==
    /\ "dry_run" \notin DOMAIN cfg.raw_cfg
    /\ pc = "struck" /\ cur.owner_app = None
    /\ acts # <<>> /\ acts[1].fn = "remove_via_qbit" /\ acts[1].calls = <<>>

----------------------------------------------------------------------------
(* Reloading the configuration (config.py 50-100).  In SpecReload cur is   *)
(* the file /config/config.yml: whether it exists, its modification time   *)
(* and what reading it gives; cfg holds the manager's raw_cfg and          *)
(* last_mtime and the TZ variable of the process environment; ops holds    *)
(* the last read of a property: its name, what the reload in front of it   *)
(* did (outcome), the manager as it was before the read (before) and the   *)
(* value read.  A change of the file clears ops.  The other variables stay *)
(* as Init leaves them.                                                    *)

MaxMtime == 3         \* latest modification time the file is given

DefaultTimezone == <<"Asia/Kuwait">>

\* documents yaml.safe_load can give for the file (an empty file gives None,
\* which line 63 turns into the empty mapping)
ReloadDocs ==
    {<<>>,
     ("dry_run" :> PyBool(FALSE)),
     ("enable_max_strikes" :> PyBool(TRUE)) @@ ("max_strikes" :> PyInt(1)),
     ("timezone" :> PyStr(<<"UTC">>)) @@ ("dry_run" :> PyBool(TRUE)),
     ("timezone" :> PyInt(3)) @@ ("dry_run" :> PyBool(FALSE))}

\* what reading the file gives: a mapping, a document that is not a mapping
\* (a YAML list), or an exception of open() or of the parser
FileContents ==
    {[read |-> "mapping", doc |-> d] : d \in ReloadDocs}
    \cup {[read |-> "list", doc |-> <<>>], [read |-> "error", doc |-> <<>>]}

NewManager == [raw_cfg |-> <<>>, last_mtime |-> 0, tz |-> <<"unset">>]

\* reload that notes the modification time before it parses the file
reload_stamps_first(c, file) ==
    IF ~file.exists THEN [cfg |-> c, outcome |-> "no file"]
    ELSE IF file.mtime = c.last_mtime THEN [cfg |-> c, outcome |-> "unchanged"]
    ELSE LET stamped == [c EXCEPT !.last_mtime = file.mtime]
             tz == dict_get(file.content.doc, "timezone", PyStr(DefaultTimezone))
         IN IF file.content.read # "mapping" THEN [cfg |-> stamped, outcome |-> "failed"]
            ELSE IF tz.kind # "str" THEN [cfg |-> stamped, outcome |-> "failed"]
            ELSE [cfg |-> [raw_cfg |-> file.content.doc, last_mtime |-> file.mtime,
                           tz |-> tz.s],
                  outcome |-> "loaded"]

\* lines 55-100: nothing without the file or with the modification time of the
\* last load; else read and parse (line 63), set TZ (lines 66-67: .get fails on
\* a document that is no mapping, os.environ rejects a value that is no text),
\* and store the mapping and the modification time (lines 97-98); every
\* exception on the way is caught at line 99
reload(c, file) ==
    IF ~file.exists THEN [cfg |-> c, outcome |-> "no file"]
    ELSE IF file.mtime = c.last_mtime THEN [cfg |-> c, outcome |-> "unchanged"]
    ELSE LET tz == dict_get(file.content.doc, "timezone", PyStr(DefaultTimezone))
         IN IF file.content.read # "mapping" THEN [cfg |-> c, outcome |-> "failed"]
            ELSE IF tz.kind # "str" THEN [cfg |-> c, outcome |-> "failed"]
            ELSE [cfg |-> [raw_cfg |-> file.content.doc, last_mtime |-> file.mtime,
                           tz |-> tz.s],
                  outcome |-> "loaded"]

NoAccess == [name |-> None, outcome |-> None, before |-> NewManager, value |-> PyNone]

\* lines 25-34: the manager is constructed and reloads once
ReloadInit ==
    /\ torrent_strikes = <<>>
    /\ connected = TRUE
    /\ pc = "ready"
    /\ seen = {}
    /\ \E exists \in BOOLEAN, content \in FileContents :
          /\ cur = [exists |-> exists, mtime |-> 1, content |-> content]
          /\ cfg = reload(NewManager, cur).cfg
    /\ ops = NoAccess
    /\ acts = <<>>

\* the file is saved: new modification time, any content
FileSave ==
    /\ cur.mtime < MaxMtime
    /\ \E content \in FileContents :
          cur' = [exists |-> TRUE, mtime |-> cur.mtime + 1, content |-> content]
    /\ ops' = NoAccess
    /\ UNCHANGED <<torrent_strikes, connected, cfg, pc, seen, acts>>

\* the content changes under the same modification time (a write within the
\* clock's resolution, or one that restores the time)
FileSaveSameTime ==
    /\ cur.exists
    /\ \E content \in FileContents \ {cur.content} : cur' = [cur EXCEPT !.content = content]
    /\ ops' = NoAccess
    /\ UNCHANGED <<torrent_strikes, connected, cfg, pc, seen, acts>>

\* the file is removed
FileRemove ==
    /\ cur.exists
    /\ cur' = [cur EXCEPT !.exists = FALSE]
    /\ ops' = NoAccess
    /\ UNCHANGED <<torrent_strikes, connected, cfg, pc, seen, acts>>

\* a property is read: the reload, then the value out of raw_cfg
ReloadAccess ==
    /\ \E name \in {"DRY_RUN", "MAX_STRIKES"} :
          LET r == reload(cfg, cur)
          IN /\ cfg' = r.cfg
             /\ ops' = [name |-> name, outcome |-> r.outcome, before |-> cfg,
                        value |-> IF name = "DRY_RUN" THEN DRY_RUN(r.cfg.raw_cfg)
                                  ELSE int_property(r.cfg.raw_cfg, name)]
    /\ UNCHANGED <<torrent_strikes, connected, pc, seen, cur, acts>>

ReloadNext ==
    \/ FileSave
    \/ FileSaveSameTime
    \/ FileRemove
    \/ ReloadAccess

SpecReload == ReloadInit /\ [][ReloadNext]_vars

\* what a property read gives out of a manager's settings
setting_value(c, name) ==
    IF name = "DRY_RUN" THEN DRY_RUN(c.raw_cfg) ELSE int_property(c.raw_cfg, name)

\* C37: a read whose reload fails leaves raw_cfg and last_mtime as they were and
\* gives the value the setting had before, and the read that follows it on the
\* same file attempts the reload again; a read whose reload finds the
\* modification time unchanged leaves the manager as it was.
C37_FailedReloadKeepsSettings ==
    [][/\ ops'.outcome \in {"failed", "unchanged"} =>
             /\ cfg' = cfg
             /\ cfg' = ops'.before
             /\ ops'.value = setting_value(ops'.before, ops'.name)
       /\ ops'.outcome = "failed" => cfg'.last_mtime # cur'.mtime
       /\ (ops.outcome = "failed" /\ ops'.outcome # None) => ops'.outcome = "failed"
      ]_vars

\* C37 witness: the file was loaded with dry_run off, then saved in a form that
\* cannot be loaded; the read attempted the reload, failed, and still gives
\* dry_run off
C37_Witness ==
    /\ ops.name = "DRY_RUN" /\ ops.outcome = "failed"
    /\ cfg.last_mtime >= 1 /\ cur.mtime > cfg.last_mtime
    /\ cfg.raw_cfg = ("dry_run" :> PyBool(FALSE))
    /\ ops.value = PyBool(FALSE)

----------------------------------------------------------------------------
\* a step of SpecThread in which line 60 is reached: a cycle starts
CycleStarts == Len(acts') > Len(acts)

\* a step of SpecThread that is the test of lines 56-58
TestTaken == pc = "check" /\ pc' # "check"

\* C38: a cycle starts only in an iteration that finds the cleaner enabled; the
\* first iteration after start-up and the first one after an iteration that
\* found the cleaner disabled start a cycle when they find it enabled; and while
\* the cleaner stays enabled a cycle starts no sooner than the configured
\* interval after the start of the cycle before it.
C38_CyclesOnSchedule ==
    [][/\ CycleStarts => TestTaken /\ cfg.enabled
       /\ (TestTaken /\ cfg.enabled /\ cur.prev \in {None, "disabled"}) => CycleStarts
       /\ (CycleStarts /\ cur.last_start > 0 /\ cur.stayed) =>
             cur.now - cur.last_start >= cfg.run_every
      ]_vars

----------------------------------------------------------------------------
(* trash_guide_sync_thread (threads.py lines 111-154).  In SpecSync the    *)
(* clock is read in whole minutes.  pc is the position of the thread: at   *)
(* the test of line 130, inside the call of line 140, in the sleep of line *)
(* 151 or in the sleep of line 153.  cfg holds enable_trash_guide_sync.    *)
(* cur holds retry_mode, whether last_success is 0 (never), and            *)
(* now - last_success in minutes (elapsed, followed up to MaxLate minutes  *)
(* past the longer interval; 0 while last_success is 0); and, about the    *)
(* latest update attempt that has ended: how it ended (last), the minutes  *)
(* since it ended (since) and whether the sync has stayed enabled since    *)
(* then (stayed; since is kept at 0 once it has not).  The other variables *)
(* stay as Init leaves them.                                               *)

MaxLate == 1          \* minutes past the 24 hours for which the clock is followed

SecondsPerMinute == 60
RetrySeconds == 300
NormalSeconds == 86400

RetryMinutes == RetrySeconds \div SecondsPerMinute
NormalMinutes == NormalSeconds \div SecondsPerMinute
LatestMinute == NormalMinutes + MaxLate

\* line 134: interval = 300 if retry_mode else 86400
sync_interval(retry_mode) == IF retry_mode THEN RetryMinutes ELSE NormalMinutes

\* line 137: now - last_success >= interval or last_success == 0
sync_due(elapsed, never, interval) == elapsed >= interval \/ never

\* d minutes pass
later(c, d) ==
    [c EXCEPT !.elapsed = IF c.never THEN 0
                          ELSE IF @ + d > LatestMinute THEN LatestMinute ELSE @ + d,
              !.since = IF ~c.stayed THEN 0
                        ELSE IF @ + d > LatestMinute THEN LatestMinute ELSE @ + d]

\* the latest attempt has just ended
ended(c, how, enabled) == [c EXCEPT !.last = how, !.since = 0, !.stayed = enabled]

SyncInit ==
    /\ torrent_strikes = <<>>
    /\ connected = FALSE
    /\ cfg \in [enabled : BOOLEAN]
    /\ pc = "check"
    /\ seen = {}
    /\ cur = [retry_mode |-> FALSE, never |-> TRUE, elapsed |-> 0,
              last |-> None, since |-> 0, stayed |-> FALSE]
    /\ ops = <<>>
    /\ acts = <<>>

\* enable_trash_guide_sync is edited in the configuration file
SyncConfigEdit ==
    /\ cfg' = [enabled |-> ~cfg.enabled]
    /\ cur' = IF cfg'.enabled THEN cur ELSE [cur EXCEPT !.stayed = FALSE, !.since = 0]
    /\ UNCHANGED <<torrent_strikes, connected, pc, seen, ops, acts>>

\* lines 130-140 and 148-149: the test of the switch and of the interval
SyncCheck ==
    /\ pc = "check"
    /\ IF cfg.enabled
       THEN /\ pc' = IF sync_due(cur.elapsed, cur.never, sync_interval(cur.retry_mode))
                     THEN "in_update" ELSE "sleep"
            /\ UNCHANGED cur
       ELSE /\ cur' = [cur EXCEPT !.never = TRUE, !.elapsed = 0, !.stayed = FALSE,
                                  !.since = 0]
            /\ pc' = "sleep"
    /\ UNCHANGED <<torrent_strikes, connected, cfg, seen, ops, acts>>

\* a minute passes inside update_trash_guide_cache
SyncUpdateTick ==
    /\ pc = "in_update"
    /\ cur.elapsed < LatestMinute
    /\ cur' = later(cur, 1)
    /\ UNCHANGED <<torrent_strikes, connected, cfg, pc, seen, ops, acts>>

\* lines 140-147: update_trash_guide_cache returns True or False
SyncUpdateReturn ==
    /\ pc = "in_update"
    /\ \E success \in BOOLEAN :
          cur' = ended([cur EXCEPT !.never = FALSE, !.elapsed = 0, !.retry_mode = ~success],
                       IF success THEN "success" ELSE "failure", cfg.enabled)
    /\ pc' = "sleep"
    /\ UNCHANGED <<torrent_strikes, connected, cfg, seen, ops, acts>>

\* update_trash_guide_cache raises (os.makedirs at sync_mgr.py line 62 and the
\* read of cfg.DRY_RUN at line 54 are outside its try); line 152 catches
SyncUpdateRaise ==
    /\ pc = "in_update"
    /\ cur' = ended(cur, "failure", cfg.enabled)
    /\ pc' = "crashed"
    /\ UNCHANGED <<torrent_strikes, connected, cfg, seen, ops, acts>>

\* line 151: time.sleep(1); the minute may or may not turn
SyncSleep ==
    /\ pc = "sleep"
    /\ \E d \in {0, 1} : cur' = later(cur, d)
    /\ pc' = "check"
    /\ UNCHANGED <<torrent_strikes, connected, cfg, seen, ops, acts>>

\* line 154: time.sleep(60)
SyncCrashSleep ==
    /\ pc = "crashed"
    /\ cur' = later(cur, 1)
    /\ pc' = "check"
    /\ UNCHANGED <<torrent_strikes, connected, cfg, seen, ops, acts>>

SyncNext ==
    \/ SyncConfigEdit
    \/ SyncCheck
    \/ SyncUpdateTick
    \/ SyncUpdateReturn
    \/ SyncUpdateRaise
    \/ SyncSleep
    \/ SyncCrashSleep

SpecSync == SyncInit /\ [][SyncNext]_vars

\* a step of SpecSync in which line 140 is reached: an update attempt starts
UpdateStarts == pc = "check" /\ pc' = "in_update"

\* C39: while the sync stays enabled, the attempt that follows a successful
\* update starts 24 hours after the success and the attempt that follows a
\* failed update starts 5 minutes after the failure; retry mode is left only
\* by an update that succeeds.
C39_RetryAndNormalIntervals ==
    [][/\ (UpdateStarts /\ cur.stayed /\ cur.last = "success") =>
             cur.since = NormalMinutes
       /\ (UpdateStarts /\ cur.stayed /\ cur.last = "failure") =>
             cur.since = RetryMinutes
       /\ (cur.retry_mode /\ ~cur'.retry_mode) =>
             pc = "in_update" /\ cur'.last = "success"
      ]_vars

----------------------------------------------------------------------------
(* MissingSearcher.run_cycle for Sonarr, Radarr and Lidarr (hunter.py      *)
(* lines 121-189) with the search memory of database.py.  In SpecHunt cfg  *)
(* holds the application whose cycles the behaviour follows; seen is that  *)
(* application's memory table: the ids in it and whether its oldest entry  *)
(* is older than MAX_CYCLE_DAYS days (stale); ops is the set of ids a      *)
(* search was posted for since the table was last wiped; connected says    *)
(* that no call of the hunter on the database has failed yet; cur is the   *)
(* latest cycle: its limit, the candidate ids it fetched, the ids it       *)
(* posted a search for, in order, the wipe it made (None, "net" at line    *)
(* 135 or "done" at line 158) and a bit n that flips with every cycle.     *)
(* The other variables stay as Init leaves them.                           *)

MaxRecords == 2       \* records the application answers with in one cycle

ItemIds == {1, 2}
HuntApps == {"Sonarr", "Radarr", "Lidarr"}
Limits == {1, 2}

\* lines 137-145: the ids of the records fetched, wanted/missing first
RecordLists == UNION {[1 .. n -> ItemIds] : n \in 0 .. MaxRecords}

\* the calls of a cycle that can fail: the three of database.py, the read of
\* check_safety_net and the POST of line 181
HuntFaults == {None, "check_safety_net", "get_searched_ids", "add_searched_id",
               "wipe_table", "post"}
StorageFaults == {"check_safety_net", "get_searched_ids", "add_searched_id", "wipe_table"}

\* lines 135, 152, 158, 165
table_name(app_name) ==
    CASE app_name = "Sonarr" -> "sonarr_searches"
      [] app_name = "Radarr" -> "radarr_searches"
      [] app_name = "Lidarr" -> "lidarr_searches"

\* lines 173-175
command_name(app_name) ==
    CASE app_name = "Sonarr" -> "EpisodeSearch"
      [] app_name = "Radarr" -> "MoviesSearch"
      [] app_name = "Lidarr" -> "AlbumSearch"

EmptyTable == [ids |-> {}, stale |-> FALSE]

\* database.py lines 72-81
wipe_table(table, fault) == IF fault = "wipe_table" THEN table ELSE EmptyTable

\* database.py lines 49-59
get_searched_ids(table, fault) == IF fault = "get_searched_ids" THEN {} ELSE table.ids

\* database.py lines 61-70: INSERT OR IGNORE
add_searched_id(table, item_id, fault) ==
    IF fault = "add_searched_id" THEN table
    ELSE [ids |-> table.ids \cup {item_id}, stale |-> table.ids # {} /\ table.stale]

\* lines 34-48
check_safety_net(table, fault) ==
    IF fault # "check_safety_net" /\ table.ids # {} /\ table.stale
    THEN wipe_table(table, fault) ELSE table

ids_of(s) == {s[i] : i \in 1 .. Len(s)}

\* line 149: a dict keyed by id keeps the order of first insertion
RECURSIVE unique_candidates(_)
unique_candidates(candidates) ==
    IF candidates = <<>> THEN <<>>
    ELSE LET front == unique_candidates(SubSeq(candidates, 1, Len(candidates) - 1))
             last == candidates[Len(candidates)]
         IN  IF last \in ids_of(front) THEN front ELSE Append(front, last)

\* line 153 without the filter
target_unfiltered(unique, searched) == unique

\* line 153
target(unique, searched) == SelectSeq(unique, LAMBDA item_id : item_id \notin searched)

\* line 163: target[:limit]
batch(items, limit) == SubSeq(items, 1, IF limit < Len(items) THEN limit ELSE Len(items))

\* lines 167-189: the loop over the batch; a POST that raises skips line 185
RECURSIVE search_batch(_, _, _, _)
search_batch(table, items, dry_run, fault) ==
    IF items = <<>> THEN [table |-> table, posted |-> <<>>]
    ELSE LET item_id == items[1]
             raised == ~dry_run /\ fault = "post"
             rest == search_batch(IF raised THEN table
                                  ELSE add_searched_id(table, item_id, fault),
                                  Tail(items), dry_run, fault)
         IN  [table |-> rest.table,
              posted |-> IF dry_run \/ raised THEN rest.posted
                         ELSE <<item_id>> \o rest.posted]

\* lines 121-189
run_cycle(table, candidates, limit, dry_run, fault) ==
    LET checked == check_safety_net(table, fault)
        by_net == checked # table
        unique == unique_candidates(candidates)
        searched == get_searched_ids(checked, fault)
        todo == target(unique, searched)
    IN  IF todo = <<>>
        THEN LET wiped == IF searched # {} THEN wipe_table(checked, fault) ELSE checked
             IN  [table |-> wiped, posted |-> <<>>,
                  wipe |-> IF by_net THEN "net"
                           ELSE IF wiped # checked THEN "done" ELSE None]
        ELSE LET done == search_batch(checked, batch(todo, limit), dry_run, fault)
             IN  [table |-> done.table, posted |-> done.posted,
                  wipe |-> IF by_net THEN "net" ELSE None]

HuntInit ==
    /\ torrent_strikes = <<>>
    /\ connected = TRUE
    /\ cfg \in [app : HuntApps]
    /\ pc = "idle"
    /\ seen = EmptyTable
    /\ cur = [limit |-> 1, candidates |-> {}, posted |-> <<>>, wipe |-> None,
              command |-> None, n |-> 0]
    /\ ops = {}
    /\ acts = <<>>

\* time passes: the oldest entry becomes older than MAX_CYCLE_DAYS days
HuntEntriesAge ==
    /\ seen.ids # {}
    /\ ~seen.stale
    /\ seen' = [seen EXCEPT !.stale = TRUE]
    /\ UNCHANGED <<torrent_strikes, connected, cfg, pc, cur, ops, acts>>

\* threads.py lines 37-39: one cycle of the application
HuntCycle ==
    \E candidates \in RecordLists, limit \in Limits, dry_run \in BOOLEAN, fault \in HuntFaults :
       LET r == run_cycle(seen, candidates, limit, dry_run, fault)
       IN  /\ seen' = r.table
           /\ ops' = (IF r.wipe = None THEN ops ELSE {}) \cup ids_of(r.posted)
           /\ connected' = (connected /\ fault \notin StorageFaults)
           /\ cur' = [limit |-> limit, candidates |-> ids_of(candidates),
                      posted |-> r.posted, wipe |-> r.wipe,
                      command |-> IF r.posted = <<>> THEN None ELSE command_name(cfg.app),
                      n |-> 1 - cur.n]
           /\ UNCHANGED <<torrent_strikes, cfg, pc, acts>>

HuntNext ==
    \/ HuntEntriesAge
    \/ HuntCycle

SpecHunt == HuntInit /\ [][HuntNext]_vars

\* what C40 says of a step that is a cycle; a search counts as triggered when
\* the POST of line 181 returns, and the memory a search is tested against is
\* the table as it is after check_safety_net
CycleKeepsMemory ==
    LET posted == ids_of(cur'.posted)
    IN  /\ posted \cap (IF cur'.wipe = "net" THEN {} ELSE seen.ids) = {}
        /\ Len(cur'.posted) <= cur'.limit
        /\ posted \subseteq seen'.ids
        /\ cur'.wipe = "done" => cur'.candidates \subseteq seen.ids /\ seen.ids # {}
        /\ cur'.wipe = "net" => seen.stale
        /\ seen'.ids = {} /\ seen.ids # {} => cur'.wipe # None
        /\ Cardinality(posted) = Len(cur'.posted)
        /\ posted \cap (IF cur'.wipe = None THEN ops ELSE {}) = {}

====
